---- MODULE Spec2Model ----
(***************************************************************************)
(* voipms-api: a Python client library for the VoIP.ms REST API.           *)
(*                                                                         *)
(* One transport class (VoipMsClient) and ten resource facades.  A run of  *)
(* the model follows a caller that constructs one object of the class      *)
(* `cls` and calls its methods one after the other against the remote      *)
(* vendor platform.  Every action is one whole method call, including all  *)
(* requests it sends and the handlers that catch its exceptions.           *)
(***************************************************************************)
EXTENDS Integers, Sequences, FiniteSets, TLC

VARIABLES
    cls,          \* the class the caller works with
    environ,      \* os.environ, restricted to the two credential variables
    client,       \* the VoipMsClient held by the object (self.vms_client)
    facade,       \* the facade object: constructed or not, and self.acc_number
    remote,       \* the vendor platform: for each list key the entity records
    call,         \* the method call last made: name, arguments, server reactions
    sent,         \* the requests handed to requests.get during that call
    outcome,      \* how that call ended: exception raised to the caller, value returned
    received,     \* the responses to those requests: HTTP status and JSON body
    paramsAfter,  \* the caller's params mapping as it is after a make_request call
    fetched,      \* the record a pre-fetching operation took as base
    workers       \* two callers in processes of their own, each inside one update

vars == <<cls, environ, client, facade, remote, call, sent, received, outcome,
          paramsAfter, fetched, workers>>

-----------------------------------------------------------------------------
(* Python values.  Scalars are atoms: a str is the TLA+ string of the same  *)
(* text, None is NoneV, the int n is the atom "i:n".                        *)

NoneV == "<None>"

IntAtoms == {"i:0", "i:1", "i:2", "i:5", "i:22", "i:25", "i:60", "i:250"}

\* True
TrueV == "b:True"

\* bool(v) for a scalar: None, the empty str and the int 0 are false.
Truthy(v) == v \notin {NoneV, "", "i:0"}

IsStr(v) == v # NoneV /\ v \notin IntAtoms

\* dict: a function from keys to values.
EmptyDict == <<>>

Put(d, k, v) == (k :> v) @@ d

\* dict.update(e): the entries of e replace those of d.
DictUpdate(d, e) == e @@ d

\* dict.pop(k, None)
Pop(d, k) == [x \in DOMAIN d \ {k} |-> d[x]]

\* A value that is either None or a dict.
PyNone == [t |-> "None", v |-> EmptyDict]

PyDict(d) == [t |-> "dict", v |-> d]

\* The characters of the strs on which the code computes (len, in, slicing).
Chars(s) ==
    CASE s = "100000_VoIP" -> <<"1","0","0","0","0","0","_","V","o","I","P">>
      [] s = "100000_Desk" -> <<"1","0","0","0","0","0","_","D","e","s","k">>
      [] s = "100000"      -> <<"1","0","0","0","0","0">>
      [] s = "2044"        -> <<"2","0","4","4">>
      [] s = "VoIP"        -> <<"V","o","I","P">>
      [] s = "twelve_chars" -> <<"t","w","e","l","v","e","_","c","h","a","r","s">>
      [] s = "thirteen_char" -> <<"t","h","i","r","t","e","e","n","_","c","h","a","r">>
      [] s = "2016-06-03"  -> <<"2","0","1","6","-","0","6","-","0","3">>
      [] s = "2016-07-03"  -> <<"2","0","1","6","-","0","7","-","0","3">>
      [] s = "2016-7-3"    -> <<"2","0","1","6","-","7","-","3">>
      [] s = "2016-02-30"  -> <<"2","0","1","6","-","0","2","-","3","0">>
      [] s = "03/06/2016"  -> <<"0","3","/","0","6","/","2","0","1","6">>
      [] s = "account:"    -> <<"a","c","c","o","u","n","t",":">>
      [] s = "1=account:"  -> <<"1","=","a","c","c","o","u","n","t",":">>
      [] s = "account:100000" ->
             <<"a","c","c","o","u","n","t",":","1","0","0","0","0","0">>
      [] s = "1=account:100000" ->
             <<"1","=","a","c","c","o","u","n","t",":","1","0","0","0","0","0">>
      [] s = ""            -> <<>>
      [] OTHER             -> <<s>>

\* The strs the model knows by their characters.
KnownStrs == {"100000_VoIP", "100000_Desk", "100000", "2044", "VoIP",
              "twelve_chars", "thirteen_char", "", "account:", "1=account:",
              "account:100000", "1=account:100000"}

\* The str with the given characters.
StrOf(cs) == IF \E s \in KnownStrs : Chars(s) = cs
             THEN CHOOSE s \in KnownStrs : Chars(s) = cs
             ELSE "?"

\* A test that finds the character in every str: what C22 excludes.
StrContains_Always(s, c) == TRUE

\* c in s, for a str s
StrContains(s, c) == \E i \in DOMAIN Chars(s) : Chars(s)[i] = c

Min(a, b) == IF a < b THEN a ELSE b

\* a + b, for two strs
StrConcat(a, b) == StrOf(Chars(a) \o Chars(b))

\* s[0:n]
StrPrefix(s, n) == StrOf(SubSeq(Chars(s), 1, Min(n, Len(Chars(s)))))

-----------------------------------------------------------------------------
(* The remote vendor API, as the code relies on it.  Each entity kind is    *)
(* named by the key under which its get method lists it.                    *)

Kinds == {"accounts", "forwardings", "ivrs", "ring_groups", "call_hunting", "voicemails"}

\* The key of a record that holds the entity's identifier.
IdKey(kind) ==
    CASE kind = "accounts"     -> "id"
      [] kind = "forwardings"  -> "forwarding"
      [] kind = "ivrs"         -> "ivr"
      [] kind = "ring_groups"  -> "ring_group"
      [] kind = "call_hunting" -> "callhunting"
      [] kind = "voicemails"   -> "mailbox"

GetMethods == {"getSubAccounts", "getForwardings", "getIVRs", "getRingGroups",
               "getCallHuntings", "getVoicemails"}

SetMethods == {"setSubAccount", "setForwarding", "setIVR", "setRingGroup",
               "setCallHunting", "setVoicemail"}

DelMethods == {"delSubAccount", "delForwarding", "delIVR", "delRingGroup",
               "delCallHunting", "delVoicemail"}

KindOfMethod(m) ==
    CASE m \in {"getSubAccounts", "setSubAccount", "delSubAccount", "createSubAccount"} -> "accounts"
      [] m \in {"getForwardings", "setForwarding", "delForwarding"} -> "forwardings"
      [] m \in {"getIVRs", "setIVR", "delIVR"} -> "ivrs"
      [] m \in {"getRingGroups", "setRingGroup", "delRingGroup"} -> "ring_groups"
      [] m \in {"getCallHuntings", "setCallHunting", "delCallHunting"} -> "call_hunting"
      [] m \in {"getVoicemails", "setVoicemail", "delVoicemail", "createVoicemail"} -> "voicemails"
      [] OTHER -> "none"

\* The request parameter by which a method names one entity.
FilterKey(m) ==
    CASE m = "getSubAccounts"  -> "account"
      [] m = "getForwardings"  -> "forwarding"
      [] m = "getIVRs"         -> "ivr"
      [] m = "getRingGroups"   -> "ring_group"
      [] m = "getCallHuntings" -> "callhunting"
      [] m = "getVoicemails"   -> "mailbox"
      [] m = "delSubAccount"   -> "id"
      [] m = "delForwarding"   -> "forwarding"
      [] m = "delIVR"          -> "ivr"
      [] m = "delRingGroup"    -> "ringgroup"
      [] m = "delCallHunting"  -> "callhunting"
      [] m = "delVoicemail"    -> "mailbox"
      [] OTHER                 -> IdKey(KindOfMethod(m))

CredentialKeys == {"api_username", "api_password", "method"}

\* A value as it travels in the query string: an int as its digits.
QueryValue(v) ==
    CASE v = "i:0"   -> "0"
      [] v = "i:1"   -> "1"
      [] v = "i:2"   -> "2"
      [] v = "i:250" -> "250"
      [] v = "i:5"   -> "5"
      [] v = "i:22"  -> "22"
      [] v = "i:25"  -> "25"
      [] v = "i:60"  -> "60"
      [] v = "b:True" -> "True"
      [] OTHER       -> v

\* A parameter the server receives: requests leaves a None value out of the URL.
Received(params, k) == k \in DOMAIN params /\ params[k] # NoneV /\ params[k] # ""

\* The records a request addresses: those matching its filter, all without one.
Matching(rem, kind, params, fk) ==
    IF Received(params, fk)
    THEN LET Hit(r) == \/ r[IdKey(kind)] = QueryValue(params[fk])
                       \/ kind = "accounts" /\ r["account"] = params[fk]
         IN SelectSeq(rem[kind], Hit)
    ELSE rem[kind]

NotMatching(rem, kind, params, fk) ==
    LET Miss(r) == ~ (\/ r[IdKey(kind)] = QueryValue(params[fk])
                      \/ kind = "accounts" /\ r["account"] = params[fk])
    IN SelectSeq(rem[kind], Miss)

\* The record the server keeps from a set request.
Stored(params) ==
    [k \in {x \in DOMAIN params \ CredentialKeys : params[x] # NoneV} |-> QueryValue(params[k])]

RECURSIVE ReplaceRecord(_, _, _)
ReplaceRecord(list, idk, rec) ==
    IF list = <<>> THEN <<>>
    ELSE IF Head(list)[idk] = rec[idk]
         THEN <<rec>> \o Tail(list)
         ELSE <<Head(list)>> \o ReplaceRecord(Tail(list), idk, rec)

\* The status a get answers when no entity matches.
NotFoundStatus(kind) ==
    CASE kind = "accounts"     -> "no_subaccount"
      [] kind = "forwardings"  -> "no_forwarding"
      [] kind = "ivrs"         -> "no_ivr"
      [] kind = "ring_groups"  -> "no_ring_group"
      [] kind = "call_hunting" -> "no_callhunting"
      [] kind = "voicemails"   -> "no_mailbox"

\* The ways the server reacts to one request: its HTTP status, and whether the
\* body follows the method's contract ("ok"), reports an error status without
\* a payload, or reports success with an empty list.
Reactions ==
    {[http |-> 200, shape |-> "ok"],
     [http |-> 200, shape |-> "error_status"],
     [http |-> 200, shape |-> "empty_list"],
     [http |-> 500, shape |-> "ok"]}

\* To a direct make_request call also with other statuses: another success, a
\* client error, and a 3xx answer that requests does not follow (300 is none of
\* the redirects it follows).
TransportReactions ==
    Reactions \cup {[http |-> 201, shape |-> "ok"], [http |-> 300, shape |-> "ok"],
                    [http |-> 404, shape |-> "ok"]}

\* response.raise_for_status(): a client or server error status raises.
\* A raise_for_status that reports server errors only: what C2 excludes.
RaisesForStatus_ServerErrorsOnly(http) == http >= 500 /\ http < 600

RaisesForStatus(http) == http >= 400 /\ http < 600

\* The JSON text of a body: its members in order, each a key and a value.
Member(k, v) == <<k, v>>

\* The server's answer to a request: the body and the platform's new state.
ServerReply(rem, params, rx) ==
    LET m    == params["method"]
        kind == KindOfMethod(m)
        fk   == FilterKey(m)
        err  == [body |-> <<Member("status", "invalid_credentials")>>, remote |-> rem]
    IN
    IF RaisesForStatus(rx.http) THEN [body |-> <<Member("message", "error")>>, remote |-> rem]
    ELSE IF rx.shape = "error_status" THEN err
    ELSE IF m \in GetMethods THEN
        IF rx.shape = "empty_list"
        THEN [body |-> <<Member("status", "success"), Member(kind, <<>>)>>, remote |-> rem]
        ELSE LET found == Matching(rem, kind, params, fk)
             IN IF found = <<>>
                THEN [body |-> <<Member("status", NotFoundStatus(kind))>>, remote |-> rem]
                ELSE [body |-> <<Member("status", "success"), Member(kind, found)>>,
                      remote |-> rem]
    ELSE IF m \in DelMethods THEN
        IF Received(params, fk) /\ Matching(rem, kind, params, fk) # <<>>
        THEN [body |-> <<Member("status", "success"), Member(fk, QueryValue(params[fk]))>>,
              remote |-> [rem EXCEPT ![kind] = NotMatching(rem, kind, params, fk)]]
        ELSE [body |-> <<Member("status", "invalid_" \o fk)>>, remote |-> rem]
    ELSE IF m \in SetMethods THEN
        LET idk == IdKey(kind)
            rec == Stored(params)
        IN IF Received(params, idk)
           THEN IF Matching(rem, kind, params, idk) # <<>>
                THEN [body |-> <<Member("status", "success"), Member(idk, rec[idk])>>,
                      remote |-> [rem EXCEPT ![kind] = ReplaceRecord(rem[kind], idk, rec)]]
                ELSE [body |-> <<Member("status", "invalid_" \o idk)>>, remote |-> rem]
           ELSE [body |-> <<Member("status", "success"), Member(idk, "new")>>,
                 remote |-> [rem EXCEPT ![kind] = Append(rem[kind], Put(rec, idk, "new"))]]
    ELSE IF m = "getIP"
         THEN [body |-> <<Member("status", "success"), Member("ip", "203.0.113.7")>>, remote |-> rem]
    ELSE [body |-> <<Member("status", "success")>>, remote |-> rem]

\* response.json(): the mapping of a JSON object; of a repeated key the last
\* member counts.
JsonDecode(body) ==
    LET keys == {body[i][1] : i \in DOMAIN body}
        Last(k) == CHOOSE i \in DOMAIN body :
                      /\ body[i][1] = k
                      /\ \A j \in DOMAIN body : body[j][1] = k => j <= i
    IN [k \in keys |-> body[Last(k)][2]]

-----------------------------------------------------------------------------
(* The outcome of running a piece of code: the requests it sent and the     *)
(* responses it received, the exception it raised ("" when none), the value *)
(* it returned, the state it left the platform in and the record it took as *)
(* base.                                                                    *)

Exec(s, e, r, rem) ==
    [sent |-> s, recv |-> <<>>, exc |-> e, ret |-> r, remote |-> rem, fetched |-> PyNone]

\* The classes that `except Exception` catches.
Exceptions == {"HTTPError", "KeyError", "ValueError", "TypeError", "IndexError"}

-----------------------------------------------------------------------------
(* voipms_client.py                                                         *)

Endpoint == "https://voip.ms/api/v1/rest.php"

EnvGet(env, k) == IF k \in DOMAIN env THEN env[k] ELSE NoneV

\* A constructor that prefers the environment to its arguments: what C9 excludes.
VoipMsClient_init_EnvFirst(username, password, env) ==
    [built      |-> TRUE,
     voipms_url |-> Endpoint,
     username   |-> IF "VOIPMS_API_USER" \in DOMAIN env
                    THEN env["VOIPMS_API_USER"] ELSE username,
     password   |-> IF "VOIPMS_API_PASSWORD" \in DOMAIN env
                    THEN env["VOIPMS_API_PASSWORD"] ELSE password]

\* VoipMsClient.__init__
VoipMsClient_init(username, password, env) ==
    [built      |-> TRUE,
     voipms_url |-> Endpoint,
     username   |-> IF Truthy(username) THEN username ELSE EnvGet(env, "VOIPMS_API_USER"),
     password   |-> IF Truthy(password) THEN password ELSE EnvGet(env, "VOIPMS_API_PASSWORD")]

NoClient == [built |-> FALSE, voipms_url |-> NoneV, username |-> NoneV, password |-> NoneV]

\* A merge in which the caller's entries win over the client's: what C1 excludes.
MergeCredentials_CallerWins(self, method, params) ==
    DictUpdate([api_username |-> self.username,
                api_password |-> self.password,
                method       |-> method], params)

\* params.update({...}) in make_request
MergeCredentials(self, method, params) ==
    DictUpdate(params, [api_username |-> self.username,
                        api_password |-> self.password,
                        method       |-> method])

\* requests.get(self.voipms_url, params=params)
Request(self, params) == [url |-> self.voipms_url, params |-> params]

\* VoipMsClient.make_request; params is None or a dict.  The result also
\* tells what the dict passed in holds afterwards.
make_request(self, method, params, rx, rem) ==
    LET p0     == IF params.t = "None" THEN EmptyDict ELSE params.v
        merged == MergeCredentials(self, method, p0)
        reply  == ServerReply(rem, merged, rx)
        run    == IF RaisesForStatus(rx.http)
                  THEN Exec(<<Request(self, merged)>>, "HTTPError", PyNone, reply.remote)
                  ELSE Exec(<<Request(self, merged)>>, "", PyDict(JsonDecode(reply.body)),
                            reply.remote)
    IN [run |-> [run EXCEPT !.recv = <<[http |-> rx.http, body |-> reply.body]>>],
        params |-> IF params.t = "None" THEN PyNone ELSE PyDict(merged)]

\* A connection test that hands back the body of an error response: what
\* C20 excludes.
test_connection_NoRaise(self, rx, rem) ==
    LET params == [api_username |-> self.username, api_password |-> self.password,
                   method |-> "getIP"]
        reply  == ServerReply(rem, params, rx)
        run    == Exec(<<Request(self, params)>>, "", PyDict(JsonDecode(reply.body)),
                       reply.remote)
    IN [run EXCEPT !.recv = <<[http |-> rx.http, body |-> reply.body]>>]

\* VoipMsClient.test_connection: its own parameters, request, status check
\* and decoding.
test_connection(self, rx, rem) ==
    LET params == [api_username |-> self.username, api_password |-> self.password,
                   method |-> "getIP"]
        reply  == ServerReply(rem, params, rx)
        run    == IF RaisesForStatus(rx.http)
                  THEN Exec(<<Request(self, params)>>, "HTTPError", PyNone, reply.remote)
                  ELSE Exec(<<Request(self, params)>>, "", PyDict(JsonDecode(reply.body)),
                            reply.remote)
    IN [run EXCEPT !.recv = <<[http |-> rx.http, body |-> reply.body]>>]

-----------------------------------------------------------------------------
(* What every facade method shares.                                         *)

\* A method that ends with the two named handlers only: what C4 excludes.
FacadeCatch_NamedOnly(run) ==
    IF run.exc \in {"HTTPError", "KeyError"} THEN [run EXCEPT !.exc = "", !.ret = PyNone]
    ELSE run

\* The handlers that end every facade method:
\*   except requests.exceptions.HTTPError: return None
\*   except KeyError: return None
\*   except Exception: return None
FacadeCatch(run) ==
    IF run.exc = "HTTPError" THEN [run EXCEPT !.exc = "", !.ret = PyNone]
    ELSE IF run.exc = "KeyError" THEN [run EXCEPT !.exc = "", !.ret = PyNone]
    ELSE IF run.exc \in Exceptions THEN [run EXCEPT !.exc = "", !.ret = PyNone]
    ELSE run

\* raise e, after what run did
Raise(run, e) == [run EXCEPT !.exc = e, !.ret = PyNone]

\* b runs after a: the requests of both, in order
After(a, b) == [b EXCEPT !.sent = a.sent \o b.sent, !.recv = a.recv \o b.recv]

\* A method that returns the response as it came: what C11 excludes.
SetItem_Forgotten(run, k, v) == run

\* data[k] = v on the mapping a request returned
SetItem(run, k, v) ==
    IF run.exc # "" THEN run ELSE [run EXCEPT !.ret = PyDict(Put(run.ret.v, k, v))]

WithFetched(run, rec) == [run EXCEPT !.fetched = PyDict(rec)]

\* A first-record lookup that takes an empty list for an empty record instead of
\* raising: what C27 excludes.
FirstOf_EmptyListIsEmptyRecord(value, key) ==
    IF value.t = "None" THEN [exc |-> "TypeError", rec |-> EmptyDict]
    ELSE IF key \notin DOMAIN value.v THEN [exc |-> "KeyError", rec |-> EmptyDict]
    ELSE IF value.v[key] = <<>> THEN [exc |-> "", rec |-> EmptyDict]
    ELSE [exc |-> "", rec |-> value.v[key][1]]

\* value[key][0], for the value a get_* method returned: the exception it
\* raises, or the record.
FirstOf(value, key) ==
    IF value.t = "None" THEN [exc |-> "TypeError", rec |-> EmptyDict]
    ELSE IF key \notin DOMAIN value.v THEN [exc |-> "KeyError", rec |-> EmptyDict]
    ELSE IF value.v[key] = <<>> THEN [exc |-> "IndexError", rec |-> EmptyDict]
    ELSE [exc |-> "", rec |-> value.v[key][1]]

\* One line of the form `if arg: params[key] = arg` ("truthy") or
\* `if arg is not None: params[key] = arg` ("not_none").
Field(arg, key, mode) == [arg |-> arg, key |-> key, mode |-> mode]

\* Every optional line written `is not None`: what C18 excludes.
Applies_NotNoneEverywhere(f, a) == a[f.arg] # NoneV

Applies(f, a) == IF f.mode = "truthy" THEN Truthy(a[f.arg]) ELSE a[f.arg] # NoneV

\* The optional-parameter lines of a method, applied in order to params.
RECURSIVE Overlay(_, _, _)
Overlay(params, a, fields) ==
    IF fields = <<>> THEN params
    ELSE LET f == Head(fields)
         IN Overlay(IF Applies(f, a) THEN Put(params, f.key, a[f.arg]) ELSE params,
                    a, Tail(fields))

\* A get_* method with one optional filter argument.
GetFiltered(self, mtd, key, arg, rx, rem) ==
    LET params == IF Truthy(arg) THEN (key :> arg) ELSE EmptyDict
    IN FacadeCatch(make_request(self, mtd, PyDict(params), rx, rem).run)

\* A check that misses a password given alone: what C8 excludes.
OnlyOneGiven_UsernameOnly(username, password) == Truthy(username) /\ ~Truthy(password)

\* if (username and not password) or (password and not username)
OnlyOneGiven(username, password) ==
    \/ Truthy(username) /\ ~Truthy(password)
    \/ Truthy(password) /\ ~Truthy(username)

\* elif (username and password): VoipMsClient(username, password)
\* else: VoipMsClient()
BuildClient(username, password, env) ==
    IF Truthy(username) /\ Truthy(password)
    THEN VoipMsClient_init(username, password, env)
    ELSE VoipMsClient_init(NoneV, NoneV, env)

NoFacade == [ready |-> FALSE, acc_number |-> NoneV]

\* __init__ of Accounts, DIDs, Forwarding, General, LNP, SMS and Voicemail.
PlainInit(username, password, env, rem) ==
    IF OnlyOneGiven(username, password)
    THEN [client |-> NoClient, facade |-> NoFacade,
          run |-> Exec(<<>>, "ValueError", PyNone, rem)]
    ELSE [client |-> BuildClient(username, password, env),
          facade |-> [ready |-> TRUE, acc_number |-> NoneV],
          run |-> Exec(<<>>, "", PyNone, rem)]

-----------------------------------------------------------------------------
(* accounts.py                                                              *)

MaxUsernameLen == 12

\* Accounts.get_subaccounts
get_subaccounts(self, subaccount, rx, rem) ==
    GetFiltered(self, "getSubAccounts", "account", subaccount, rx, rem)

\* Checks that know the authentication type as an int only: what C15 excludes.
AuthChecksFail_IntOnly(a) ==
    \/ a["auth_type"] = "i:1" /\ ~Truthy(a["password"])
    \/ a["auth_type"] = "i:2" /\ ~Truthy(a["ip"])
    \/ /\ (a["enable_internal_cnam"] = "i:0" \/ a["auth_type"] = "0")
       /\ Truthy(a["internal_cnam"])

\* The three argument checks that create_subaccount and update_subaccount share.
AuthChecksFail(a) ==
    \/ a["auth_type"] \in {"i:1", "1"} /\ ~Truthy(a["password"])
    \/ a["auth_type"] \in {"i:2", "2"} /\ ~Truthy(a["ip"])
    \/ /\ (a["enable_internal_cnam"] = "i:0" \/ a["auth_type"] = "0")
       /\ Truthy(a["internal_cnam"])

create_subaccount_fields ==
    << Field("auth_type", "auth_type", "truthy"),
       Field("password", "password", "truthy"),
       Field("ip", "ip", "truthy"),
       Field("protocol", "protocol", "truthy"),
       Field("device_type", "device_type", "not_none"),
       Field("callerid_number", "callerid_number", "truthy"),
       Field("internal_extension", "internal_extension", "truthy"),
       Field("internal_voicemail", "internal_voicemail", "truthy"),
       Field("internal_cnam", "internal_cnam", "truthy"),
       Field("enable_internal_cnam", "enable_internal_cnam", "truthy"),
       Field("description", "description", "truthy"),
       Field("lock_international", "lock_international", "not_none"),
       Field("codecs", "allowed_codecs", "truthy") >>

create_subaccount_defaults ==
    [auth_type |-> "i:1", password |-> NoneV, ip |-> NoneV, protocol |-> "i:1",
     device_type |-> "i:2", callerid_number |-> NoneV, internal_extension |-> NoneV,
     internal_voicemail |-> NoneV, internal_cnam |-> NoneV, enable_internal_cnam |-> "i:0",
     description |-> NoneV, lock_international |-> "i:1", codecs |-> "g722"]

\* Accounts.create_subaccount
create_subaccount(self, username, a, rx, rem) ==
    FacadeCatch(
        IF ~IsStr(username) THEN Exec(<<>>, "TypeError", PyNone, rem)
        ELSE IF Len(Chars(username)) > MaxUsernameLen THEN Exec(<<>>, "ValueError", PyNone, rem)
        ELSE IF AuthChecksFail(a) THEN Exec(<<>>, "ValueError", PyNone, rem)
        ELSE LET base == [username |-> username, international_route |-> "i:1",
                          music_on_hold |-> "default", dtmf_mode |-> "auto", nat |-> "yes"]
                 params == Overlay(base, a, create_subaccount_fields)
             IN make_request(self, "createSubAccount", PyDict(params), rx, rem).run)

update_subaccount_fields ==
    << Field("auth_type", "auth_type", "not_none"),
       Field("password", "password", "truthy"),
       Field("ip", "ip", "truthy"),
       Field("protocol", "protocol", "truthy"),
       Field("device_type", "device_type", "not_none"),
       Field("callerid_number", "callerid_number", "truthy"),
       Field("description", "description", "truthy"),
       Field("canada_route", "canada_routing", "truthy"),
       Field("lock_international", "lock_international", "not_none"),
       Field("international_route", "international_route", "truthy"),
       Field("record_calls", "record_calls", "not_none"),
       Field("music_on_hold", "music_on_hold", "truthy"),
       Field("internal_extension", "internal_extension", "truthy"),
       Field("internal_voicemail", "internal_voicemail", "truthy"),
       Field("internal_cnam", "internal_cnam", "truthy"),
       Field("enable_internal_cnam", "enable_internal_cnam", "truthy"),
       Field("codecs", "allowed_codecs", "truthy"),
       Field("dtmf_mode", "dtmf_mode", "truthy") >>

\* An update that drops both credentials whatever the types are: what C5 excludes.
DropOldCredential_Always(rec, a) == Pop(Pop(rec, "password"), "ip")

\* The credential of the old authentication type is dropped when the type changes.
DropOldCredential(rec, a) ==
    LET p1 == IF rec["auth_type"] = "1" /\ a["auth_type"] \in {"i:2", "2"}
              THEN Pop(rec, "password") ELSE rec
    IN IF p1["auth_type"] = "2" /\ a["auth_type"] \in {"i:1", "1"}
       THEN Pop(p1, "ip") ELSE p1

\* Accounts.update_subaccount
update_subaccount(self, subaccount, a, rx1, rx2, rem) ==
    FacadeCatch(
        IF ~IsStr(subaccount) THEN Exec(<<>>, "TypeError", PyNone, rem)
        ELSE IF ~StrContains(subaccount, "_") THEN Exec(<<>>, "ValueError", PyNone, rem)
        ELSE
        LET g == get_subaccounts(self, subaccount, rx1, rem)
            f == FirstOf(g.ret, "accounts")
        IN
        IF g.ret.t = "None" THEN Raise(g, "TypeError")
        ELSE IF "status" \notin DOMAIN g.ret.v THEN Raise(g, "KeyError")
        ELSE IF g.ret.v["status"] = "no_subaccount" THEN Raise(g, "ValueError")
        ELSE IF f.exc # "" THEN Raise(g, f.exc)
        ELSE IF AuthChecksFail(a) THEN Raise(g, "ValueError")
        ELSE IF "auth_type" \notin DOMAIN f.rec THEN Raise(g, "KeyError")
        ELSE
        LET params == Overlay(DropOldCredential(f.rec, a), a, update_subaccount_fields)
            s == After(g, make_request(self, "setSubAccount", PyDict(params), rx2, g.remote).run)
        IN WithFetched(SetItem(s, "subacc", subaccount), f.rec))

\* Accounts.delete_subaccount
delete_subaccount(self, id, rx, rem) ==
    FacadeCatch(
        LET d == make_request(self, "delSubAccount", PyDict("id" :> id), rx, rem).run
        IN SetItem(SetItem(d, "result", "Sub Account deleted"), "id", id))

-----------------------------------------------------------------------------
(* An update_* method that fetches the record, applies its optional-        *)
(* parameter lines and submits; and a delete_* method that fetches the      *)
(* record for its descriptive value and then deletes.                       *)

FetchMergeSubmit(self, g, listKey, a, fields, mtd, rx2) ==
    LET f == FirstOf(g.ret, listKey)
    IN IF f.exc # "" THEN Raise(g, f.exc)
       ELSE LET params == Overlay(f.rec, a, fields)
                s == After(g, make_request(self, mtd, PyDict(params), rx2, g.remote).run)
            IN WithFetched(s, f.rec)

\* A delete that attaches the identifier it was called with instead of the value
\* it fetched: what C10 excludes.
FetchThenDelete_AttachIdentifier(self, g, listKey, descKey, mtd, params, resultKey, rx2) ==
    LET f == FirstOf(g.ret, listKey)
    IN IF f.exc # "" THEN Raise(g, f.exc)
       ELSE IF descKey \notin DOMAIN f.rec THEN Raise(g, "KeyError")
       ELSE LET d == After(g, make_request(self, mtd, PyDict(params), rx2, g.remote).run)
                k == CHOOSE x \in DOMAIN params : TRUE
            IN WithFetched(SetItem(d, resultKey, params[k]), f.rec)

FetchThenDelete(self, g, listKey, descKey, mtd, params, resultKey, rx2) ==
    LET f == FirstOf(g.ret, listKey)
    IN IF f.exc # "" THEN Raise(g, f.exc)
       ELSE IF descKey \notin DOMAIN f.rec THEN Raise(g, "KeyError")
       ELSE LET d == After(g, make_request(self, mtd, PyDict(params), rx2, g.remote).run)
            IN WithFetched(SetItem(d, resultKey, f.rec[descKey]), f.rec)

-----------------------------------------------------------------------------
(* forwarding.py                                                            *)

\* Forwarding.get_forwardings
get_forwardings(self, forwarding, rx, rem) ==
    GetFiltered(self, "getForwardings", "forwarding", forwarding, rx, rem)

\* Forwarding.delete_forwarding
delete_forwarding(self, forwarding, rx1, rx2, rem) ==
    FacadeCatch(FetchThenDelete(self, get_forwardings(self, forwarding, rx1, rem),
                                "forwardings", "phone_number", "delForwarding",
                                "forwarding" :> forwarding, "phone_number", rx2))

update_forwarding_fields ==
    << Field("phone_number", "phone_number", "truthy"),
       Field("cid_override", "callerid_override", "truthy"),
       Field("description", "description", "truthy"),
       Field("dtmf_digits", "dtmf_digits", "truthy"),
       Field("pause", "pause", "not_none") >>

\* Forwarding.update_forwarding from the point where get_forwardings has
\* returned g.
update_forwarding_merge(self, g, a, rx2) ==
    FetchMergeSubmit(self, g, "forwardings", a, update_forwarding_fields, "setForwarding", rx2)

\* Forwarding.update_forwarding
update_forwarding(self, id, a, rx1, rx2, rem) ==
    FacadeCatch(update_forwarding_merge(self, get_forwardings(self, id, rx1, rem), a, rx2))

-----------------------------------------------------------------------------
(* ivr.py                                                                   *)

\* IVR.get_ivrs
get_ivrs(self, ivr, rx, rem) == GetFiltered(self, "getIVRs", "ivr", ivr, rx, rem)

\* IVR.delete_ivr
delete_ivr(self, ivr, rx1, rx2, rem) ==
    FacadeCatch(FetchThenDelete(self, get_ivrs(self, ivr, rx1, rem), "ivrs", "name",
                                "delIVR", "ivr" :> ivr, "ivr", rx2))

update_ivr_fields ==
    << Field("recording", "recording", "truthy"),
       Field("time_out", "timeout", "truthy"),
       Field("language", "language", "truthy"),
       Field("voicemail", "voicemailsetup", "truthy"),
       Field("options", "choices", "truthy") >>

\* IVR.update_ivr
update_ivr(self, id, a, rx1, rx2, rem) ==
    FacadeCatch(
        LET s == FetchMergeSubmit(self, get_ivrs(self, id, rx1, rem), "ivrs",
                                  a, update_ivr_fields, "setIVR", rx2)
        IN SetItem(s, "name", a["name"]))

-----------------------------------------------------------------------------
(* ring_groups.py                                                           *)

\* RingGroups.get_ring_groups
get_ring_groups(self, ring_group, rx, rem) ==
    GetFiltered(self, "getRingGroups", "ring_group", ring_group, rx, rem)

\* RingGroups.delete_ring_group
delete_ring_group(self, ring_group, rx1, rx2, rem) ==
    FacadeCatch(FetchThenDelete(self, get_ring_groups(self, ring_group, rx1, rem),
                                "ring_groups", "name", "delRingGroup",
                                "ringgroup" :> ring_group, "ring_group", rx2))

update_ring_group_fields ==
    << Field("name", "name", "truthy"),
       Field("voicemail", "voicemail", "truthy"),
       Field("members", "members", "truthy"),
       Field("announcement", "caller_announcement", "truthy"),
       Field("music_on_hold", "music_on_hold", "truthy"),
       Field("language", "language", "truthy") >>

\* RingGroups.update_ring_group
update_ring_group(self, id, a, rx1, rx2, rem) ==
    FacadeCatch(
        LET s == FetchMergeSubmit(self, get_ring_groups(self, id, rx1, rem), "ring_groups",
                                  a, update_ring_group_fields, "setRingGroup", rx2)
        IN SetItem(s, "name", a["name"]))

-----------------------------------------------------------------------------
(* call_hunting.py                                                          *)

\* CallHunting.get_call_huntings
get_call_huntings(self, call_hunting, rx, rem) ==
    GetFiltered(self, "getCallHuntings", "callhunting", call_hunting, rx, rem)

\* CallHunting.delete_call_hunting
delete_call_hunting(self, call_hunting, rx1, rx2, rem) ==
    FacadeCatch(FetchThenDelete(self, get_call_huntings(self, call_hunting, rx1, rem),
                                "call_hunting", "description", "delCallHunting",
                                "callhunting" :> call_hunting, "call_hunting", rx2))

update_call_hunting_fields ==
    << Field("name", "description", "truthy"),
       Field("music", "music", "truthy"),
       Field("recording", "recording", "truthy"),
       Field("language", "language", "truthy"),
       Field("order", "order", "truthy"),
       Field("members", "members", "truthy"),
       Field("ring_time", "ring_time", "truthy"),
       Field("press_one", "press", "not_none") >>

\* CallHunting.update_call_hunting from the point where get_call_huntings has
\* returned g.
update_call_hunting_merge(self, g, a, rx2) ==
    LET s == FetchMergeSubmit(self, g, "call_hunting",
                              a, update_call_hunting_fields, "setCallHunting", rx2)
    IN SetItem(s, "name", a["name"])

\* CallHunting.update_call_hunting
update_call_hunting(self, id, a, rx1, rx2, rem) ==
    FacadeCatch(update_call_hunting_merge(self, get_call_huntings(self, id, rx1, rem), a, rx2))

-----------------------------------------------------------------------------
(* voicemail.py                                                             *)

\* Voicemail.get_voicemails
get_voicemails(self, voicemail, clt, rx, rem) ==
    LET p1 == IF Truthy(voicemail) THEN ("mailbox" :> voicemail) ELSE EmptyDict
        params == IF Truthy(clt) THEN Put(p1, "client", clt) ELSE p1
    IN FacadeCatch(make_request(self, "getVoicemails", PyDict(params), rx, rem).run)

\* Voicemail.delete_voicemail
delete_voicemail(self, id, rx, rem) ==
    FacadeCatch(
        LET d == make_request(self, "delVoicemail", PyDict("mailbox" :> id), rx, rem).run
        IN SetItem(SetItem(d, "result", "Voicemail deleted"), "voicemail", id))

\* get_voicemails answers 'Y' or 'N' for transcription, which setVoicemail does
\* not accept.
\* A resubmission of the transcription value as fetched: what C23 excludes.
CoerceTranscription_Identity(rec) == rec

CoerceTranscription(rec) ==
    LET p1 == IF rec["transcription"] = "N" THEN Put(rec, "transcription", "") ELSE rec
    IN IF p1["transcription"] = "Y" THEN Put(p1, "transcription", "yes") ELSE p1

update_voicemail_fields ==
    << Field("name", "name", "truthy"),
       Field("password", "password", "not_none"),
       Field("skip_password", "skip_password", "truthy"),
       Field("email", "email", "truthy"),
       Field("attach_message", "attach_message", "truthy"),
       Field("delete_message", "delete_message", "truthy"),
       Field("timezone", "timezone", "truthy"),
       Field("language", "language", "truthy"),
       Field("client", "client", "truthy") >>

\* Voicemail.update_voicemail
update_voicemail(self, id, a, rx1, rx2, rem) ==
    FacadeCatch(
        LET g == get_voicemails(self, id, NoneV, rx1, rem)
            f == FirstOf(g.ret, "voicemails")
        IN
        IF f.exc # "" THEN Raise(g, f.exc)
        ELSE IF "transcription" \notin DOMAIN f.rec THEN Raise(g, "KeyError")
        ELSE
        LET params == Overlay(CoerceTranscription(f.rec), a, update_voicemail_fields)
            s == After(g, make_request(self, "setVoicemail", PyDict(params), rx2, g.remote).run)
        IN WithFetched(SetItem(SetItem(s, "voicemail", id), "name", a["name"]), f.rec))

-----------------------------------------------------------------------------
(* __init__ of RingGroups, IVR and CallHunting: after the transport is      *)
(* built, the sub-accounts are listed through a new Accounts() to find the  *)
(* main account's number.                                                   *)

AccountNumberLen == 6

EagerInit(username, password, env, rx, rem) ==
    IF OnlyOneGiven(username, password)
    THEN [client |-> NoClient, facade |-> NoFacade,
          run |-> Exec(<<>>, "ValueError", PyNone, rem)]
    ELSE
    LET built    == BuildClient(username, password, env)
        accounts == PlainInit(NoneV, NoneV, env, rem)
        g        == get_subaccounts(accounts.client, NoneV, rx, rem)
        f        == FirstOf(g.ret, "accounts")
        failed(e) == [client |-> built, facade |-> NoFacade, run |-> Raise(g, e)]
    IN IF f.exc # "" THEN failed(f.exc)
       ELSE IF "account" \notin DOMAIN f.rec THEN failed("KeyError")
       ELSE IF ~IsStr(f.rec["account"]) THEN failed("TypeError")
       ELSE [client |-> built,
             facade |-> [ready |-> TRUE,
                         acc_number |-> StrPrefix(f.rec["account"], AccountNumberLen)],
             run |-> [g EXCEPT !.ret = PyNone]]

-----------------------------------------------------------------------------
(* dids.py                                                                  *)

cancel_did_fields ==
    << Field("comment", "comment", "truthy"),
       Field("port_out", "portout", "truthy"),
       Field("test", "test", "truthy") >>

\* DIDs.cancel_did
cancel_did(self, did, a, rx, rem) ==
    FacadeCatch(
        LET params == Overlay("did" :> did, a, cancel_did_fields)
            d == make_request(self, "cancelDID", PyDict(params), rx, rem).run
        IN SetItem(SetItem(d, "result", "DID canceled"), "did", did))

\* DIDs.get_dids_info
get_dids_info(self, clt, did, rx, rem) ==
    LET p1 == IF Truthy(clt) THEN ("client" :> clt) ELSE EmptyDict
        params == IF Truthy(did) THEN Put(p1, "did", did) ELSE p1
    IN FacadeCatch(make_request(self, "getDIDsInfo", PyDict(params), rx, rem).run)

order_did_defaults ==
    [routing |-> "sys:hangup", pop |-> "i:22", dial_time |-> "i:60", cnam |-> "i:0",
     billing_type |-> "i:1"]

\* DIDs.order_did
order_did(self, did, a, rx, rem) ==
    FacadeCatch(
        LET params == [did |-> did, routing |-> a["routing"], pop |-> a["pop"],
                       dialtime |-> a["dial_time"], cnam |-> a["cnam"],
                       billing_type |-> a["billing_type"]]
            d == make_request(self, "orderDID", PyDict(params), rx, rem).run
        IN SetItem(SetItem(d, "result", "DID ordered"), "did", did))

order_toll_free_defaults ==
    [routing |-> "sys:hangup", pop |-> "i:22", dial_time |-> "i:60", cnam |-> "i:0"]

\* DIDs.order_toll_free
order_toll_free(self, did, a, rx, rem) ==
    FacadeCatch(
        LET params == [did |-> did, routing |-> a["routing"], pop |-> a["pop"],
                       dialtime |-> a["dial_time"], cnam |-> a["cnam"]]
            d == make_request(self, "orderTollFree", PyDict(params), rx, rem).run
        IN SetItem(SetItem(d, "result", "DID ordered"), "did", did))

-----------------------------------------------------------------------------
(* datetime.strptime(s, '%Y-%m-%d'), which general.py and sms.py call on    *)
(* their date arguments.                                                    *)

DigitVal(c) ==
    CASE c = "0" -> 0 [] c = "1" -> 1 [] c = "2" -> 2 [] c = "3" -> 3 [] c = "4" -> 4
      [] c = "5" -> 5 [] c = "6" -> 6 [] c = "7" -> 7 [] c = "8" -> 8 [] c = "9" -> 9
      [] OTHER -> -1

RECURSIVE NumVal(_)
NumVal(cs) ==
    IF cs = <<>> THEN 0
    ELSE NumVal(SubSeq(cs, 1, Len(cs) - 1)) * 10 + DigitVal(cs[Len(cs)])

\* cs.split(sep)
RECURSIVE SplitOn(_, _)
SplitOn(cs, sep) ==
    IF \A i \in DOMAIN cs : cs[i] # sep THEN <<cs>>
    ELSE LET i == CHOOSE j \in DOMAIN cs :
                     cs[j] = sep /\ \A k \in 1..(j - 1) : cs[k] # sep
         IN <<SubSeq(cs, 1, i - 1)>> \o SplitOn(SubSeq(cs, i + 1, Len(cs)), sep)

DaysIn(y, m) ==
    IF m \in {4, 6, 9, 11} THEN 30
    ELSE IF m # 2 THEN 31
    ELSE IF (y % 4 = 0 /\ y % 100 # 0) \/ y % 400 = 0 THEN 29 ELSE 28

\* The exception strptime raises, or the day parsed (as a number that orders
\* the days): a four-digit year, a month and a day of one or two digits.
strptime(s) ==
    IF ~IsStr(s) THEN [exc |-> "TypeError", day |-> 0]
    ELSE
    LET parts == SplitOn(Chars(s), "-")
        bad   == [exc |-> "ValueError", day |-> 0]
    IN IF Len(parts) # 3 THEN bad
       ELSE IF \/ Len(parts[1]) # 4
               \/ Len(parts[2]) \notin 1..2
               \/ Len(parts[3]) \notin 1..2
               \/ \E p \in 1..3 : \E i \in DOMAIN parts[p] : DigitVal(parts[p][i]) < 0
       THEN bad
       ELSE LET y == NumVal(parts[1])
                m == NumVal(parts[2])
                d == NumVal(parts[3])
            IN IF y < 1 \/ m \notin 1..12 \/ d \notin 1..DaysIn(y, m) THEN bad
               ELSE [exc |-> "", day |-> (y * 12 + m) * 31 + d]

-----------------------------------------------------------------------------
(* sms.py                                                                   *)

get_sms_fields ==
    << Field("type", "type", "not_none"),
       Field("did", "did", "not_none"),
       Field("contact", "contact", "not_none"),
       Field("limit", "limit", "not_none"),
       Field("timezone", "timezone", "not_none") >>

\* SMS.get_sms; a holds date_from, date_to and the five filters.
get_sms(self, id, a, rx, rem) ==
    FacadeCatch(
        LET date_from == a["date_from"]
            date_to   == a["date_to"]
            base      == "sms" :> id
            df        == strptime(date_from)
            dt        == strptime(date_to)
            Send(p)   == make_request(self, "getSMS",
                                      PyDict(Overlay(p, a, get_sms_fields)), rx, rem).run
        IN IF \/ Truthy(date_from) /\ ~Truthy(date_to)
              \/ Truthy(date_from) /\ ~Truthy(date_to)
           THEN Exec(<<>>, "ValueError", PyNone, rem)
           ELSE IF Truthy(date_from) /\ Truthy(date_to)
           THEN IF df.exc # "" THEN Exec(<<>>, df.exc, PyNone, rem)
                ELSE IF dt.exc # "" THEN Exec(<<>>, dt.exc, PyNone, rem)
                ELSE IF df.day > dt.day THEN Exec(<<>>, "ValueError", PyNone, rem)
                ELSE Send(DictUpdate(base, ("from" :> date_from) @@ ("to" :> date_to)))
           ELSE Send(base))

-----------------------------------------------------------------------------
(* general.py                                                               *)

\* General.get_conference
get_conference(self, id, rx, rem) ==
    GetFiltered(self, "getConference", "conference", id, rx, rem)

\* General.get_sequences
get_sequences(self, sequence, clt, rx, rem) ==
    LET p1 == IF Truthy(sequence) THEN ("sequence" :> sequence) ELSE EmptyDict
        params == IF Truthy(clt) THEN Put(p1, "client", clt) ELSE p1
    IN FacadeCatch(make_request(self, "getSequences", PyDict(params), rx, rem).run)

\* General.get_conference_recordings
get_conference_recordings(self, id, date_from, date_to, rx, rem) ==
    FacadeCatch(
        LET base    == "conference" :> id
            df      == strptime(date_from)
            dt      == strptime(date_to)
            Send(p) == make_request(self, "getConferenceRecordings", PyDict(p), rx, rem).run
        IN IF Truthy(date_from) /\ ~Truthy(date_to)
           THEN Exec(<<>>, "TypeError", PyNone, rem)
           ELSE IF Truthy(date_from) \/ Truthy(date_to)
           THEN IF df.exc # "" THEN Exec(<<>>, df.exc, PyNone, rem)
                ELSE IF dt.exc # "" THEN Exec(<<>>, dt.exc, PyNone, rem)
                ELSE IF df.day <= dt.day
                     THEN Send(Put(Put(base, "date_from", date_from), "date_to", date_to))
                     ELSE Exec(<<>>, "TypeError", PyNone, rem)
           ELSE Send(base))

\* A get_transactions that wants the end date after the start date: what C14
\* excludes.
get_transactions_Strict(self, date_from, date_to, rx, rem) ==
    FacadeCatch(
        LET df == strptime(date_from)
            dt == strptime(date_to)
        IN IF df.exc # "" THEN Exec(<<>>, df.exc, PyNone, rem)
           ELSE IF dt.exc # "" THEN Exec(<<>>, dt.exc, PyNone, rem)
           ELSE IF df.day < dt.day
                THEN make_request(self, "getTransactionHistory",
                                  PyDict([date_from |-> date_from, date_to |-> date_to]),
                                  rx, rem).run
                ELSE Exec(<<>>, "TypeError", PyNone, rem))

\* General.get_transactions
get_transactions(self, date_from, date_to, rx, rem) ==
    FacadeCatch(
        LET df == strptime(date_from)
            dt == strptime(date_to)
        IN IF df.exc # "" THEN Exec(<<>>, df.exc, PyNone, rem)
           ELSE IF dt.exc # "" THEN Exec(<<>>, dt.exc, PyNone, rem)
           ELSE IF df.day <= dt.day
                THEN make_request(self, "getTransactionHistory",
                                  PyDict([date_from |-> date_from, date_to |-> date_to]),
                                  rx, rem).run
                ELSE Exec(<<>>, "TypeError", PyNone, rem))

-----------------------------------------------------------------------------
(* The create methods of ring_groups.py, ivr.py, call_hunting.py,           *)
(* forwarding.py and voicemail.py.  The default member is built from the    *)
(* account number before the try block, so a failure there is not caught.   *)

create_ring_group_fields ==
    << Field("members", "members", "truthy"),
       Field("announcement", "caller_announcement", "truthy"),
       Field("music_on_hold", "music_on_hold", "truthy"),
       Field("language", "language", "truthy") >>

\* RingGroups.create_ring_group
create_ring_group(self, acc_number, name, voicemail, a, rx, rem) ==
    IF ~IsStr(acc_number) THEN Exec(<<>>, "TypeError", PyNone, rem)
    ELSE FacadeCatch(
        LET default_member == StrConcat("account:", acc_number)
            base == [name |-> name, voicemail |-> voicemail, members |-> default_member]
            params == Overlay(base, a, create_ring_group_fields)
            d == make_request(self, "setRingGroup", PyDict(params), rx, rem).run
        IN SetItem(d, "name", name))

create_ivr_fields ==
    << Field("recording", "recording", "truthy"),
       Field("time_out", "timeout", "truthy"),
       Field("language", "language", "truthy"),
       Field("voicemail", "voicemailsetup", "truthy"),
       Field("options", "choices", "truthy") >>

\* An IVR whose default choice lacks the digit: what C17 excludes.
create_ivr_NoDigit(self, acc_number, name, recording, a, rx, rem) ==
    FacadeCatch(
        LET base == [name |-> name, recording |-> recording, timeout |-> "i:5",
                     language |-> "en", voicemailsetup |-> "i:1",
                     choices |-> StrConcat("account:", acc_number)]
            params == Overlay(base, a @@ ("recording" :> recording), create_ivr_fields)
            d == make_request(self, "setIVR", PyDict(params), rx, rem).run
        IN SetItem(d, "name", name))

\* IVR.create_ivr
create_ivr(self, acc_number, name, recording, a, rx, rem) ==
    IF ~IsStr(acc_number) THEN Exec(<<>>, "TypeError", PyNone, rem)
    ELSE FacadeCatch(
        LET default_opt == StrConcat("1=account:", acc_number)
            base == [name |-> name, recording |-> recording, timeout |-> "i:5",
                     language |-> "en", voicemailsetup |-> "i:1", choices |-> default_opt]
            params == Overlay(base, a @@ ("recording" :> recording), create_ivr_fields)
            d == make_request(self, "setIVR", PyDict(params), rx, rem).run
        IN SetItem(d, "name", name))

create_call_hunting_fields ==
    << Field("music", "music", "truthy"),
       Field("recording", "recording", "truthy"),
       Field("language", "language", "truthy"),
       Field("order", "order", "truthy"),
       Field("members", "members", "truthy"),
       Field("ring_time", "ring_time", "not_none"),
       Field("press_one", "press", "not_none") >>

\* CallHunting.create_call_hunting
create_call_hunting(self, acc_number, name, a, rx, rem) ==
    IF ~IsStr(acc_number) THEN Exec(<<>>, "TypeError", PyNone, rem)
    ELSE FacadeCatch(
        LET default_member == StrConcat("account:", acc_number)
            base == [description |-> name, music |-> "default", recording |-> "none:",
                     language |-> "en", order |-> "follow", members |-> default_member,
                     ring_time |-> "i:25", press |-> "i:0"]
            params == Overlay(base, a, create_call_hunting_fields)
            d == make_request(self, "setCallHunting", PyDict(params), rx, rem).run
        IN SetItem(d, "name", name))

create_forwarding_fields ==
    << Field("cid_override", "callerid_override", "truthy"),
       Field("description", "description", "truthy"),
       Field("dtmf_digits", "dtmf_digits", "truthy"),
       Field("pause", "pause", "truthy") >>

\* Forwarding.create_forwarding
create_forwarding(self, phone_number, a, rx, rem) ==
    FacadeCatch(
        LET params == Overlay("phone_number" :> phone_number, a, create_forwarding_fields)
            d == make_request(self, "setForwarding", PyDict(params), rx, rem).run
        IN SetItem(d, "forwarding", phone_number))

create_voicemail_fields ==
    << Field("skip_password", "skip_password", "truthy"),
       Field("email", "email", "truthy"),
       Field("attach_message", "attach_message", "truthy"),
       Field("delete_message", "delete_message", "truthy"),
       Field("timezone", "timezone", "truthy"),
       Field("language", "language", "truthy"),
       Field("client", "client", "truthy") >>

create_voicemail_defaults ==
    [skip_password |-> "no", email |-> NoneV, attach_message |-> "yes",
     delete_message |-> "no", timezone |-> "US/Eastern", language |-> "en",
     client |-> NoneV]

\* Voicemail.create_voicemail
create_voicemail(self, id, name, password, a, rx, rem) ==
    FacadeCatch(
        LET base == [digits |-> id, name |-> name, password |-> password,
                     say_time |-> "yes", say_callerid |-> "yes", play_instructions |-> "u"]
            params == Overlay(base, a, create_voicemail_fields)
            d == make_request(self, "createVoicemail", PyDict(params), rx, rem).run
        IN SetItem(SetItem(d, "voicemail", id), "name", name))

-----------------------------------------------------------------------------
(* The bounded world the calls are made in.                                 *)

\* The most entities of one kind the platform lists.
MaxEntities == 2

\* The most optional arguments a caller passes in one call.
MaxSupplied == 2

FacadeClasses == {"Accounts", "CallHunting", "DIDs", "Forwarding", "General",
                  "IVR", "LNP", "RingGroups", "SMS", "Voicemail"}

EagerClasses == {"RingGroups", "IVR", "CallHunting"}

Classes == FacadeClasses \cup {"VoipMsClient"}

IdAtom(i) == <<"1", "2", "3", "4">>[i]

AccountName(i) == <<"100000_VoIP", "100000_Desk", "100000_Fax", "100000_Lab">>[i]

\* The i-th record of a kind, as its get method returns it.
Record(kind, i) ==
    CASE kind = "accounts" ->
           [id |-> IdAtom(i), account |-> AccountName(i), description |-> "front desk",
            auth_type |-> IF i % 2 = 1 THEN "1" ELSE "2",
            password |-> IF i % 2 = 1 THEN "secret" ELSE "",
            ip |-> IF i % 2 = 1 THEN "" ELSE "198.51.100.4",
            device_type |-> "2", lock_international |-> "1"]
      [] kind = "forwardings" ->
           [forwarding |-> IdAtom(i), phone_number |-> AccountName(i),
            callerid_override |-> "", description |-> "after hours",
            dtmf_digits |-> "", pause |-> "0"]
      [] kind = "ivrs" ->
           [ivr |-> IdAtom(i), name |-> AccountName(i), recording |-> "77",
            timeout |-> "5", language |-> "en", voicemailsetup |-> "1",
            choices |-> "1=account:100000"]
      [] kind = "ring_groups" ->
           [ring_group |-> IdAtom(i), name |-> AccountName(i),
            caller_announcement |-> "", music_on_hold |-> "default",
            language |-> "en", members |-> "account:100000", voicemail |-> "101"]
      [] kind = "call_hunting" ->
           [callhunting |-> IdAtom(i), description |-> AccountName(i), music |-> "default",
            recording |-> "none:", language |-> "en", order |-> "follow",
            members |-> "account:100000", ring_time |-> "25", press |-> "0"]
      [] kind = "voicemails" ->
           [mailbox |-> IdAtom(i), name |-> AccountName(i), password |-> "1234",
            skip_password |-> "no", email |-> "", attach_message |-> "yes",
            delete_message |-> "no", timezone |-> "US/Eastern", language |-> "en",
            transcription |-> IF i % 2 = 1 THEN "N" ELSE "Y"]

Records(kind, n) == [i \in 1..n |-> Record(kind, i)]

KindOfClass(c) ==
    CASE c = "Accounts"     -> "accounts"
      [] c = "Forwarding"   -> "forwardings"
      [] c = "IVR"          -> "ivrs"
      [] c = "RingGroups"   -> "ring_groups"
      [] c = "CallHunting"  -> "call_hunting"
      [] c = "Voicemail"    -> "voicemails"
      [] c = "VoipMsClient" -> "forwardings"
      [] OTHER              -> "none"

\* A mailbox listed without its transcription setting, and one listed with a
\* value that setVoicemail accepts.
OddVoicemails ==
    { <<Pop(Record("voicemails", 1), "transcription")>>,
      <<Put(Record("voicemails", 1), "transcription", "yes")>> }

\* The platform states a call of class c may find.
RemoteChoices(c) ==
    { [k \in Kinds |-> Records(k, IF k = KindOfClass(c) THEN n
                                  ELSE IF k = "accounts" /\ c \in EagerClasses THEN m
                                  ELSE 0)] :
        n \in 0..MaxEntities, m \in 0..MaxEntities }
    \cup
    (IF c = "Voicemail"
     THEN { [k \in Kinds |-> IF k = "voicemails" THEN v ELSE <<>>] : v \in OddVoicemails }
     ELSE {})

EnvChoices ==
    { EmptyDict,
      "VOIPMS_API_USER" :> "env@example.com",
      "VOIPMS_API_PASSWORD" :> "env-pass",
      ("VOIPMS_API_USER" :> "env@example.com") @@ ("VOIPMS_API_PASSWORD" :> "env-pass") }

\* For a facade: both variables set, or neither.
FacadeEnvChoices ==
    { EmptyDict,
      ("VOIPMS_API_USER" :> "env@example.com") @@ ("VOIPMS_API_PASSWORD" :> "env-pass") }

UsernameArgs == {NoneV, "", "me@example.com"}

PasswordArgs == {NoneV, "", "api-pass"}

\* The identifiers a caller passes: of an entity, of none, and the empty ones.
IdChoices == {"1", "2", "i:1", "i:0", "", NoneV}

\* The partial argument lists with at most k of the names, each with one of
\* its values.
RECURSIVE Supplied(_, _, _)
Supplied(names, vals, k) ==
    IF k = 0 \/ names = {} THEN {EmptyDict}
    ELSE LET n == CHOOSE x \in names : TRUE
             rest == names \ {n}
         IN Supplied(rest, vals, k) \cup
            { Put(d, n, v) : d \in Supplied(rest, vals, k - 1), v \in vals[n] }

\* The arguments as the method body sees them: the defaults where none is passed.
WithDefaults(d, defaults) ==
    [n \in DOMAIN defaults |-> IF n \in DOMAIN d THEN d[n] ELSE defaults[n]]

AllNone(vals) == [n \in DOMAIN vals |-> NoneV]

ArgChoices(vals, defaults) ==
    { WithDefaults(d, defaults) : d \in Supplied(DOMAIN vals, vals, MaxSupplied) }

create_subaccount_values ==
    [auth_type |-> {"1", "i:2", "2", "0"}, password |-> {"pw2"}, ip |-> {"203.0.113.9"},
     protocol |-> {"3"}, device_type |-> {"i:0", NoneV}, callerid_number |-> {"5551230000"},
     internal_extension |-> {"i:250"}, internal_voicemail |-> {"101"},
     internal_cnam |-> {"MY CNAM"}, enable_internal_cnam |-> {"0", "i:1", "1"},
     description |-> {"lobby"}, lock_international |-> {"i:0", NoneV}, codecs |-> {"ulaw"}]

create_subaccount_args == ArgChoices(create_subaccount_values, create_subaccount_defaults)

update_subaccount_values ==
    [auth_type |-> {"i:1", "1", "i:2", "2", "0"}, password |-> {"pw2"}, ip |-> {"203.0.113.9"},
     protocol |-> {"3"}, device_type |-> {"i:0", "1"}, callerid_number |-> {"5551230000"},
     internal_extension |-> {"i:250"}, internal_voicemail |-> {"101"},
     internal_cnam |-> {"MY CNAM"}, enable_internal_cnam |-> {"i:0", "0", "i:1"},
     description |-> {"", "lobby"}, canada_route |-> {"2"}, lock_international |-> {"i:0"},
     international_route |-> {"2"}, record_calls |-> {"i:0", "i:1"},
     music_on_hold |-> {"jazz"}, codecs |-> {"ulaw"}, dtmf_mode |-> {"rfc2833"}]

\* A change of authentication type that passes both credentials along.
AuthChangeArgs ==
    { [AllNone(update_subaccount_values) EXCEPT !["auth_type"] = t,
                                                !["password"] = "pw2",
                                                !["ip"] = "203.0.113.9"] :
        t \in update_subaccount_values["auth_type"] }

update_subaccount_args ==
    ArgChoices(update_subaccount_values, AllNone(update_subaccount_values)) \cup AuthChangeArgs

update_forwarding_values ==
    [phone_number |-> {"5551230000"}, cid_override |-> {"4042820000"},
     description |-> {"", "lobby"}, dtmf_digits |-> {"101"}, pause |-> {"", "i:0", "1.5"}]

update_forwarding_args == ArgChoices(update_forwarding_values, AllNone(update_forwarding_values))

update_ivr_values ==
    [name |-> {"", "Main menu"}, recording |-> {"88"}, time_out |-> {"i:0", "i:2"},
     language |-> {"fr"}, voicemail |-> {"2"}, options |-> {"1=fwd:16006"}]

update_ivr_args == ArgChoices(update_ivr_values, AllNone(update_ivr_values))

update_ring_group_values ==
    [name |-> {"", "Sales"}, voicemail |-> {"102"}, members |-> {"account:100000;fwd:16006"},
     announcement |-> {"88"}, music_on_hold |-> {"jazz"}, language |-> {"fr"}]

update_ring_group_args == ArgChoices(update_ring_group_values, AllNone(update_ring_group_values))

update_call_hunting_values ==
    [name |-> {"", "Support"}, music |-> {"jazz"}, recording |-> {"88"}, language |-> {"fr"},
     order |-> {"random"}, members |-> {"account:100000;fwd:16006"},
     ring_time |-> {"i:0", "20"}, press_one |-> {"i:0", "i:1"}]

update_call_hunting_args ==
    ArgChoices(update_call_hunting_values, AllNone(update_call_hunting_values))

update_voicemail_values ==
    [name |-> {"", "Reception"}, password |-> {"", "i:0", "4321"}, skip_password |-> {"yes"},
     email |-> {"vm@example.com"}, attach_message |-> {"no"}, delete_message |-> {"yes"},
     timezone |-> {"America/Toronto"}, language |-> {"fr"}, client |-> {"561115"}]

update_voicemail_args == ArgChoices(update_voicemail_values, AllNone(update_voicemail_values))

SubaccountChoices == {"100000_VoIP", "100000_Desk", "100000", "", "i:1", NoneV}

UsernameChoices == {"VoIP", "twelve_chars", "thirteen_char", NoneV}

\* What a caller of make_request passes.
MethodChoices == {"getIP", "getRecordings", "getForwardings", "delForwarding"}

ParamChoices ==
    { PyNone,
      PyDict(EmptyDict),
      PyDict("forwarding" :> "1"),
      PyDict(("forwarding" :> "i:1") @@ ("api_username" :> "mallory@example.com")),
      PyDict(("method" :> "getBalance") @@ ("api_password" :> "guess")) }

\* A DID number as a caller passes it: a str, an int, or nothing.
DidChoices == {"5551234567", "i:250", "", NoneV}

cancel_did_values == [comment |-> {"moved"}, port_out |-> {TrueV}, test |-> {TrueV, ""}]

order_did_values ==
    [routing |-> {"account:100000"}, pop |-> {"i:5"}, dial_time |-> {"i:25"},
     cnam |-> {"i:1"}, billing_type |-> {"i:2"}]

order_toll_free_values ==
    [routing |-> {"account:100000"}, pop |-> {"i:5"}, dial_time |-> {"i:25"}, cnam |-> {"i:1"}]

\* A reseller client as a caller names it.
ClientChoices == {"561115", NoneV}

\* The dates a caller passes: two days in order, the later one written with
\* single digits, a day that does not exist, another format, and nothing.
DateChoices == {"2016-06-03", "2016-07-03", "2016-7-3", "2016-02-30", "03/06/2016", "", NoneV}

\* The identifier of a message, conference or sequence as a caller passes it.
SmallIdChoices == {"88", "i:0", NoneV}

get_sms_values ==
    [date_from |-> DateChoices \ {NoneV}, date_to |-> DateChoices \ {NoneV},
     type |-> {"i:0", "1"}, did |-> {"5551234567"}, contact |-> {""},
     limit |-> {"i:25"}, timezone |-> {"i:5"}]

\* The name of a new entity as a caller passes it.
NameChoices == {"Sales", ""}

create_ring_group_values ==
    [members |-> {"account:100001;fwd:16006", ""}, announcement |-> {"77"},
     music_on_hold |-> {"jazz"}, language |-> {"fr"}]

create_ivr_values ==
    [time_out |-> {"i:2"}, language |-> {"fr"}, voicemail |-> {"2"},
     options |-> {"1=account:100001;2=fwd:16006", ""}]

create_call_hunting_values ==
    [music |-> {"jazz"}, recording |-> {"77"}, language |-> {"fr"}, order |-> {"random"},
     members |-> {"account:100001;fwd:16006", ""}, ring_time |-> {"i:5", ""},
     press_one |-> {"i:1", ""}]

create_forwarding_values ==
    [cid_override |-> {"4042820000"}, description |-> {"after hours", ""},
     dtmf_digits |-> {"101"}, pause |-> {"1.5", "i:0"}]

create_voicemail_values ==
    [skip_password |-> {"yes", ""}, email |-> {"vm@example.com"}, attach_message |-> {""},
     delete_message |-> {"yes"}, timezone |-> {"America/Toronto"}, language |-> {"fr"},
     client |-> {"561115"}]

-----------------------------------------------------------------------------
(* The state machine.                                                       *)

\* The callers that run beside each other, and one that has not called yet.
Workers == {1, 2}

IdleWorker == [pc |-> "idle", id |-> NoneV, args |-> EmptyDict,
               run |-> Exec(<<>>, "", PyNone, [k \in Kinds |-> <<>>])]

NoCall == [op |-> "", id |-> NoneV, args |-> EmptyDict, params |-> PyNone,
           remote0 |-> [k \in Kinds |-> <<>>], remote1 |-> [k \in Kinds |-> <<>>]]

Init ==
    /\ cls \in Classes
    /\ environ \in IF cls = "VoipMsClient" THEN EnvChoices ELSE FacadeEnvChoices
    /\ client = NoClient
    /\ facade = NoFacade
    /\ remote \in RemoteChoices(cls)
    /\ call = NoCall
    /\ sent = <<>>
    /\ received = <<>>
    /\ outcome = [exc |-> "", ret |-> PyNone]
    /\ paramsAfter = PyNone
    /\ fetched = PyNone
    /\ workers = [w \in Workers |-> IdleWorker]

\* The call is over: what it sent, how it ended and what it left behind.
Finish(op, id, args, run) ==
    \E r \in {run} :
        /\ call' = [op |-> op, id |-> id, args |-> args, params |-> PyNone,
                    remote0 |-> remote, remote1 |-> r.remote]
        /\ sent' = r.sent
        /\ received' = r.recv
        /\ outcome' = [exc |-> r.exc, ret |-> r.ret]
        /\ fetched' = r.fetched
        /\ remote' = r.remote
        /\ paramsAfter' = PyNone
        /\ UNCHANGED workers

\* The caller is between two calls.
Idle == call = NoCall

Ready(c) == Idle /\ cls = c /\ facade.ready /\ remote \in RemoteChoices(c)

\* VoipMsClient(username, password)
ConstructClient ==
    /\ Idle
    /\ cls = "VoipMsClient"
    /\ \E u \in UsernameArgs, p \in PasswordArgs :
        /\ client' = VoipMsClient_init(u, p, environ)
        /\ call' = [NoCall EXCEPT !.op = "VoipMsClient", !.args = [username |-> u, password |-> p],
                                  !.remote0 = remote, !.remote1 = remote]
    /\ sent' = <<>>
    /\ received' = <<>>
    /\ outcome' = [exc |-> "", ret |-> PyNone]
    /\ paramsAfter' = PyNone
    /\ fetched' = PyNone
    /\ UNCHANGED <<cls, environ, facade, remote, workers>>

\* client.make_request(method, params)
MakeRequest ==
    /\ Idle
    /\ cls = "VoipMsClient"
    /\ client.built
    /\ remote \in RemoteChoices(cls)
    /\ \E m \in MethodChoices, params \in ParamChoices, rx \in TransportReactions :
        \E r \in {make_request(client, m, params, rx, remote)} :
           /\ call' = [op |-> "make_request", id |-> m, args |-> EmptyDict, params |-> params,
                       remote0 |-> remote, remote1 |-> r.run.remote]
           /\ sent' = r.run.sent
           /\ received' = r.run.recv
           /\ outcome' = [exc |-> r.run.exc, ret |-> r.run.ret]
           /\ paramsAfter' = r.params
           /\ remote' = r.run.remote
    /\ fetched' = PyNone
    /\ UNCHANGED <<cls, environ, client, facade, workers>>

\* client.test_connection()
TestConnection ==
    /\ Idle
    /\ cls = "VoipMsClient"
    /\ client.built
    /\ remote \in RemoteChoices(cls)
    /\ \E rx \in TransportReactions :
        Finish("test_connection", NoneV, EmptyDict, test_connection(client, rx, remote))
    /\ UNCHANGED <<cls, environ, client, facade>>

\* A facade class is constructed: Accounts(username, password), ...
Construct ==
    /\ Idle
    /\ cls \in FacadeClasses
    /\ remote \in RemoteChoices(cls)
    /\ \E u \in UsernameArgs, p \in PasswordArgs, rx \in Reactions :
        \E r \in {IF cls \in EagerClasses
                   THEN EagerInit(u, p, environ, rx, remote)
                   ELSE PlainInit(u, p, environ, remote)} :
           /\ client' = r.client
           /\ facade' = r.facade
           /\ Finish(cls, NoneV, [username |-> u, password |-> p], r.run)
    /\ UNCHANGED <<cls, environ>>

CreateSubaccount ==
    /\ Ready("Accounts")
    /\ \E username \in UsernameChoices, a \in create_subaccount_args, rx \in Reactions :
        Finish("create_subaccount", username, a,
               create_subaccount(client, username, a, rx, remote))
    /\ UNCHANGED <<cls, environ, client, facade>>

DeleteSubaccount ==
    /\ Ready("Accounts")
    /\ \E id \in IdChoices, rx \in Reactions :
        Finish("delete_subaccount", id, EmptyDict,
               delete_subaccount(client, id, rx, remote))
    /\ UNCHANGED <<cls, environ, client, facade>>

GetSubaccounts ==
    /\ Ready("Accounts")
    /\ \E subaccount \in SubaccountChoices, rx \in Reactions :
        Finish("get_subaccounts", subaccount, EmptyDict,
               get_subaccounts(client, subaccount, rx, remote))
    /\ UNCHANGED <<cls, environ, client, facade>>

UpdateSubaccount ==
    /\ Ready("Accounts")
    /\ \E subaccount \in SubaccountChoices, a \in update_subaccount_args,
          rx1 \in Reactions, rx2 \in Reactions :
        Finish("update_subaccount", subaccount, a,
               update_subaccount(client, subaccount, a, rx1, rx2, remote))
    /\ UNCHANGED <<cls, environ, client, facade>>

GetForwardings ==
    /\ Ready("Forwarding")
    /\ \E id \in IdChoices, rx \in Reactions :
        Finish("get_forwardings", id, EmptyDict,
               get_forwardings(client, id, rx, remote))
    /\ UNCHANGED <<cls, environ, client, facade>>

DeleteForwarding ==
    /\ Ready("Forwarding")
    /\ \E id \in IdChoices, rx1 \in Reactions, rx2 \in Reactions :
        Finish("delete_forwarding", id, EmptyDict,
               delete_forwarding(client, id, rx1, rx2, remote))
    /\ UNCHANGED <<cls, environ, client, facade>>

UpdateForwarding ==
    /\ Ready("Forwarding")
    /\ \E id \in IdChoices, a \in update_forwarding_args,
          rx1 \in Reactions, rx2 \in Reactions :
        Finish("update_forwarding", id, a,
               update_forwarding(client, id, a, rx1, rx2, remote))
    /\ UNCHANGED <<cls, environ, client, facade>>

GetIvrs ==
    /\ Ready("IVR")
    /\ \E id \in IdChoices, rx \in Reactions :
        Finish("get_ivrs", id, EmptyDict, get_ivrs(client, id, rx, remote))
    /\ UNCHANGED <<cls, environ, client, facade>>

DeleteIvr ==
    /\ Ready("IVR")
    /\ \E id \in IdChoices, rx1 \in Reactions, rx2 \in Reactions :
        Finish("delete_ivr", id, EmptyDict,
               delete_ivr(client, id, rx1, rx2, remote))
    /\ UNCHANGED <<cls, environ, client, facade>>

UpdateIvr ==
    /\ Ready("IVR")
    /\ \E id \in IdChoices, a \in update_ivr_args, rx1 \in Reactions, rx2 \in Reactions :
        Finish("update_ivr", id, a,
               update_ivr(client, id, a, rx1, rx2, remote))
    /\ UNCHANGED <<cls, environ, client, facade>>

GetRingGroups ==
    /\ Ready("RingGroups")
    /\ \E id \in IdChoices, rx \in Reactions :
        Finish("get_ring_groups", id, EmptyDict,
               get_ring_groups(client, id, rx, remote))
    /\ UNCHANGED <<cls, environ, client, facade>>

DeleteRingGroup ==
    /\ Ready("RingGroups")
    /\ \E id \in IdChoices, rx1 \in Reactions, rx2 \in Reactions :
        Finish("delete_ring_group", id, EmptyDict,
               delete_ring_group(client, id, rx1, rx2, remote))
    /\ UNCHANGED <<cls, environ, client, facade>>

UpdateRingGroup ==
    /\ Ready("RingGroups")
    /\ \E id \in IdChoices, a \in update_ring_group_args,
          rx1 \in Reactions, rx2 \in Reactions :
        Finish("update_ring_group", id, a,
               update_ring_group(client, id, a, rx1, rx2, remote))
    /\ UNCHANGED <<cls, environ, client, facade>>

GetCallHuntings ==
    /\ Ready("CallHunting")
    /\ \E id \in IdChoices, rx \in Reactions :
        Finish("get_call_huntings", id, EmptyDict,
               get_call_huntings(client, id, rx, remote))
    /\ UNCHANGED <<cls, environ, client, facade>>

DeleteCallHunting ==
    /\ Ready("CallHunting")
    /\ \E id \in IdChoices, rx1 \in Reactions, rx2 \in Reactions :
        Finish("delete_call_hunting", id, EmptyDict,
               delete_call_hunting(client, id, rx1, rx2, remote))
    /\ UNCHANGED <<cls, environ, client, facade>>

UpdateCallHunting ==
    /\ Ready("CallHunting")
    /\ \E id \in IdChoices, a \in update_call_hunting_args,
          rx1 \in Reactions, rx2 \in Reactions :
        Finish("update_call_hunting", id, a,
               update_call_hunting(client, id, a, rx1, rx2, remote))
    /\ UNCHANGED <<cls, environ, client, facade>>

GetVoicemails ==
    /\ Ready("Voicemail")
    /\ \E id \in IdChoices, clt \in {NoneV, "561115"}, rx \in Reactions :
        Finish("get_voicemails", id, [client |-> clt],
               get_voicemails(client, id, clt, rx, remote))
    /\ UNCHANGED <<cls, environ, client, facade>>

DeleteVoicemail ==
    /\ Ready("Voicemail")
    /\ \E id \in IdChoices, rx \in Reactions :
        Finish("delete_voicemail", id, EmptyDict,
               delete_voicemail(client, id, rx, remote))
    /\ UNCHANGED <<cls, environ, client, facade>>

UpdateVoicemail ==
    /\ Ready("Voicemail")
    /\ \E id \in IdChoices, a \in update_voicemail_args,
          rx1 \in Reactions, rx2 \in Reactions :
        Finish("update_voicemail", id, a,
               update_voicemail(client, id, a, rx1, rx2, remote))
    /\ UNCHANGED <<cls, environ, client, facade>>

CancelDid ==
    /\ Ready("DIDs")
    /\ \E did \in DidChoices, a \in ArgChoices(cancel_did_values, AllNone(cancel_did_values)), rx \in Reactions :
        Finish("cancel_did", did, a, cancel_did(client, did, a, rx, remote))
    /\ UNCHANGED <<cls, environ, client, facade>>

GetDidsInfo ==
    /\ Ready("DIDs")
    /\ \E clt \in ClientChoices, did \in DidChoices, rx \in Reactions :
        Finish("get_dids_info", did, [client |-> clt],
               get_dids_info(client, clt, did, rx, remote))
    /\ UNCHANGED <<cls, environ, client, facade>>

OrderDid ==
    /\ Ready("DIDs")
    /\ \E did \in DidChoices, a \in ArgChoices(order_did_values, order_did_defaults), rx \in Reactions :
        Finish("order_did", did, a, order_did(client, did, a, rx, remote))
    /\ UNCHANGED <<cls, environ, client, facade>>

OrderTollFree ==
    /\ Ready("DIDs")
    /\ \E did \in DidChoices, a \in ArgChoices(order_toll_free_values, order_toll_free_defaults), rx \in Reactions :
        Finish("order_toll_free", did, a, order_toll_free(client, did, a, rx, remote))
    /\ UNCHANGED <<cls, environ, client, facade>>

GetSms ==
    /\ Ready("SMS")
    /\ \E id \in SmallIdChoices, a \in ArgChoices(get_sms_values, AllNone(get_sms_values)),
          rx \in Reactions :
        Finish("get_sms", id, a, get_sms(client, id, a, rx, remote))
    /\ UNCHANGED <<cls, environ, client, facade>>

GetConference ==
    /\ Ready("General")
    /\ \E id \in SmallIdChoices, rx \in Reactions :
        Finish("get_conference", id, EmptyDict, get_conference(client, id, rx, remote))
    /\ UNCHANGED <<cls, environ, client, facade>>

GetSequences ==
    /\ Ready("General")
    /\ \E sequence \in SmallIdChoices, clt \in ClientChoices, rx \in Reactions :
        Finish("get_sequences", sequence, [client |-> clt],
               get_sequences(client, sequence, clt, rx, remote))
    /\ UNCHANGED <<cls, environ, client, facade>>

GetConferenceRecordings ==
    /\ Ready("General")
    /\ \E id \in SmallIdChoices, date_from \in DateChoices, date_to \in DateChoices,
          rx \in Reactions :
        Finish("get_conference_recordings", id, [date_from |-> date_from, date_to |-> date_to],
               get_conference_recordings(client, id, date_from, date_to, rx, remote))
    /\ UNCHANGED <<cls, environ, client, facade>>

GetTransactions ==
    /\ Ready("General")
    /\ \E date_from \in DateChoices, date_to \in DateChoices, rx \in Reactions :
        Finish("get_transactions", NoneV, [date_from |-> date_from, date_to |-> date_to],
               get_transactions(client, date_from, date_to, rx, remote))
    /\ UNCHANGED <<cls, environ, client, facade>>

CreateRingGroup ==
    /\ Ready("RingGroups")
    /\ \E name \in NameChoices, rx \in Reactions,
          a \in ArgChoices(create_ring_group_values, AllNone(create_ring_group_values)) :
        Finish("create_ring_group", name, a @@ [voicemail |-> "101"],
               create_ring_group(client, facade.acc_number, name, "101", a, rx, remote))
    /\ UNCHANGED <<cls, environ, client, facade>>

CreateIvr ==
    /\ Ready("IVR")
    /\ \E name \in NameChoices, recording \in {"77", "i:0"}, rx \in Reactions,
          a \in ArgChoices(create_ivr_values, AllNone(create_ivr_values)) :
        Finish("create_ivr", name, a @@ [recording |-> recording],
               create_ivr(client, facade.acc_number, name, recording, a, rx, remote))
    /\ UNCHANGED <<cls, environ, client, facade>>

CreateCallHunting ==
    /\ Ready("CallHunting")
    /\ \E name \in NameChoices, rx \in Reactions,
          a \in ArgChoices(create_call_hunting_values, AllNone(create_call_hunting_values)) :
        Finish("create_call_hunting", name, a,
               create_call_hunting(client, facade.acc_number, name, a, rx, remote))
    /\ UNCHANGED <<cls, environ, client, facade>>

CreateForwarding ==
    /\ Ready("Forwarding")
    /\ \E phone_number \in DidChoices, rx \in Reactions,
          a \in ArgChoices(create_forwarding_values, AllNone(create_forwarding_values)) :
        Finish("create_forwarding", phone_number, a,
               create_forwarding(client, phone_number, a, rx, remote))
    /\ UNCHANGED <<cls, environ, client, facade>>

CreateVoicemail ==
    /\ Ready("Voicemail")
    /\ \E id \in {"101", "i:250"}, name \in NameChoices, rx \in Reactions,
          a \in ArgChoices(create_voicemail_values, create_voicemail_defaults) :
        Finish("create_voicemail", id, a @@ [name |-> name, password |-> "1234"],
               create_voicemail(client, id, name, "1234", a, rx, remote))
    /\ UNCHANGED <<cls, environ, client, facade>>

\* Someone else (the customer portal, another client) changes the platform
\* between two calls.
VendorSideChange ==
    /\ Idle
    /\ remote \notin RemoteChoices(cls)
    /\ remote' \in RemoteChoices(cls)
    /\ UNCHANGED <<cls, environ, client, facade, call, sent, received, outcome,
                   paramsAfter, fetched, workers>>

\* The caller has looked at the result of its call and goes on.
Continue ==
    /\ ~Idle
    /\ call' = NoCall
    /\ sent' = <<>>
    /\ received' = <<>>
    /\ outcome' = [exc |-> "", ret |-> PyNone]
    /\ paramsAfter' = PyNone
    /\ fetched' = PyNone
    /\ UNCHANGED <<cls, environ, client, facade, remote, workers>>

-----------------------------------------------------------------------------
(* Two processes, each with a facade of its own built from the same         *)
(* environment, run one update each.  A process is sequential; what the     *)
(* platform sees of it is its get request and later its set request, and    *)
(* between the two the other process may have its requests answered.        *)

RaceClasses == {"Forwarding", "CallHunting"}

\* The calls a worker makes: one optional argument passed, the others left out.
OneArgument(args) ==
    {a \in args : Cardinality({k \in DOMAIN a : a[k] # NoneV}) = 1}

RaceArgs(c) ==
    IF c = "Forwarding" THEN OneArgument(update_forwarding_args)
    ELSE OneArgument(update_call_hunting_args)

RaceIds == {"1", "2"}

RaceInit ==
    /\ cls \in RaceClasses
    /\ environ \in FacadeEnvChoices
    /\ client = BuildClient(NoneV, NoneV, environ)
    /\ remote \in {r \in RemoteChoices(cls) :
                     /\ r[KindOfClass(cls)] # <<>>
                     /\ cls \in EagerClasses => r["accounts"] # <<>>}
    /\ facade = [ready |-> TRUE,
                 acc_number |-> IF cls \in EagerClasses
                                THEN StrPrefix(remote["accounts"][1]["account"], AccountNumberLen)
                                ELSE NoneV]
    /\ call = NoCall
    /\ sent = <<>>
    /\ received = <<>>
    /\ outcome = [exc |-> "", ret |-> PyNone]
    /\ paramsAfter = PyNone
    /\ fetched = PyNone
    /\ workers = [w \in Workers |-> IdleWorker]

\* Worker w enters update_forwarding or update_call_hunting and its get request
\* is answered.
UpdateFetches(w) ==
    /\ workers[w].pc = "idle"
    /\ \E id \in RaceIds, a \in RaceArgs(cls), rx1 \in Reactions :
        \E g \in {IF cls = "Forwarding"
                   THEN get_forwardings(client, id, rx1, remote)
                   ELSE get_call_huntings(client, id, rx1, remote)} :
           /\ workers' = [workers EXCEPT ![w] = [pc |-> "fetched", id |-> id, args |-> a,
                                                 run |-> g]]
           /\ remote' = g.remote
    /\ UNCHANGED <<cls, environ, client, facade, call, sent, received, outcome,
                   paramsAfter, fetched>>

\* Worker w goes on from the record it fetched: it merges its argument, has its
\* set request answered by the platform as it is now, and returns.
UpdateSubmits(w) ==
    /\ workers[w].pc = "fetched"
    /\ \E rx2 \in Reactions :
        \E g \in {[workers[w].run EXCEPT !.remote = remote]} :
        \E r \in {FacadeCatch(IF cls = "Forwarding"
                               THEN update_forwarding_merge(client, g, workers[w].args, rx2)
                               ELSE update_call_hunting_merge(client, g, workers[w].args, rx2))} :
           /\ workers' = [workers EXCEPT ![w].pc = "returned", ![w].run = r]
           /\ remote' = r.remote
    /\ UNCHANGED <<cls, environ, client, facade, call, sent, received, outcome,
                   paramsAfter, fetched>>

RaceNext ==
    \/ \E w \in Workers : UpdateFetches(w)
    \/ \E w \in Workers : UpdateSubmits(w)

Next ==
    \/ ConstructClient
    \/ MakeRequest
    \/ Construct
    \/ CreateSubaccount
    \/ DeleteSubaccount
    \/ GetSubaccounts
    \/ UpdateSubaccount
    \/ GetForwardings
    \/ DeleteForwarding
    \/ UpdateForwarding
    \/ GetIvrs
    \/ DeleteIvr
    \/ UpdateIvr
    \/ GetRingGroups
    \/ DeleteRingGroup
    \/ UpdateRingGroup
    \/ GetCallHuntings
    \/ DeleteCallHunting
    \/ UpdateCallHunting
    \/ GetVoicemails
    \/ DeleteVoicemail
    \/ UpdateVoicemail
    \/ CancelDid
    \/ GetDidsInfo
    \/ OrderDid
    \/ OrderTollFree
    \/ GetSms
    \/ GetConference
    \/ GetSequences
    \/ GetConferenceRecordings
    \/ GetTransactions
    \/ CreateRingGroup
    \/ CreateIvr
    \/ CreateCallHunting
    \/ CreateForwarding
    \/ CreateVoicemail
    \/ TestConnection
    \/ VendorSideChange
    \/ Continue

Spec == Init /\ [][Next]_vars

RaceSpec == RaceInit /\ [][RaceNext]_vars

-----------------------------------------------------------------------------
(* Properties.  What they say of a call is read from the record of the call *)
(* that has just ended: call, sent, received, outcome, paramsAfter.         *)

\* The methods of the requests sent, in order.
MethodsSent == [i \in DOMAIN sent |-> sent[i].params["method"]]

\* What the caller passed as params, as a mapping.
CallerParams == IF call.params.t = "None" THEN EmptyDict ELSE call.params.v

\* The members of the JSON object that encodes mapping d.
JsonMembers(d) == {Member(k, d[k]) : k \in DOMAIN d}

MembersOf(body) == {body[i] : i \in DOMAIN body}

\* C1: the request of make_request(method, params) carries every entry of
\* params and api_username, api_password and method with the client's
\* credentials and the method called; where params holds one of these three
\* keys, the client's value replaces the caller's.  (The request is the
\* mapping handed to requests.get.)
C1_RequestCarriesParamsAndCredentials ==
    call.op = "make_request" =>
        /\ Len(sent) >= 1
        /\ LET q == sent[1].params
           IN /\ DOMAIN q = DOMAIN CallerParams \cup CredentialKeys
              /\ q["api_username"] = client.username
              /\ q["api_password"] = client.password
              /\ q["method"] = call.id
              /\ \A k \in DOMAIN CallerParams \ CredentialKeys : q[k] = CallerParams[k]

\* A call whose params held an api_username of the caller's, which was replaced.
C1_Witness ==
    /\ call.op = "make_request"
    /\ "api_username" \in DOMAIN CallerParams
    /\ CallerParams["api_username"] # client.username
    /\ sent[1].params["api_username"] = client.username
    /\ sent[1].params["forwarding"] = "i:1"

C3_MakeRequestHasNoSideEffect ==
    [][call'.op = "make_request" => (client' = client /\ paramsAfter' = call'.params)]_vars

\* The operations of the facades, other than their construction.
FacadeOperation == call.op \notin ({"", "make_request", "test_connection"} \cup Classes)

UpdateOps == {"update_subaccount", "update_forwarding", "update_ivr", "update_ring_group",
              "update_call_hunting", "update_voicemail"}

UpdateKind(op) ==
    CASE op = "update_subaccount"   -> "accounts"
      [] op = "update_forwarding"   -> "forwardings"
      [] op = "update_ivr"          -> "ivrs"
      [] op = "update_ring_group"   -> "ring_groups"
      [] op = "update_call_hunting" -> "call_hunting"
      [] op = "update_voicemail"    -> "voicemails"

GetMethodOf(kind) == CHOOSE m \in GetMethods : KindOfMethod(m) = kind

SetMethodOf(kind) == CHOOSE m \in SetMethods : KindOfMethod(m) = kind

DelMethodOf(kind) == CHOOSE m \in DelMethods : KindOfMethod(m) = kind

\* An update_* call that submitted a set request.
Submitted ==
    /\ call.op \in UpdateOps
    /\ \E i \in DOMAIN sent : MethodsSent[i] = SetMethodOf(UpdateKind(call.op))

\* Before the set request exactly one request was sent: the get of the kind,
\* made with the identifier the update was called with.
OneGetBefore ==
    LET kind == UpdateKind(call.op)
        fk   == FilterKey(GetMethodOf(kind))
    IN /\ MethodsSent = <<GetMethodOf(kind), SetMethodOf(kind)>>
       /\ Truthy(call.id) => (fk \in DOMAIN sent[1].params /\ sent[1].params[fk] = call.id)

\* The record the get request returned, and the parameters submitted.
Got == JsonDecode(received[1].body)[UpdateKind(call.op)][1]

Sub == sent[2].params

DroppedCredential ==
    IF call.op # "update_subaccount" THEN {}
    ELSE (IF Got["auth_type"] = "1" /\ call.args["auth_type"] \in {"i:2", "2"}
          THEN {"password"} ELSE {})
         \cup
         (IF Got["auth_type"] = "2" /\ call.args["auth_type"] \in {"i:1", "1"}
          THEN {"ip"} ELSE {})

DocumentedFields(op) ==
    CASE op = "update_subaccount"   -> update_subaccount_fields
      [] op = "update_forwarding"   -> update_forwarding_fields
      [] op = "update_ivr"          -> <<Field("name", "name", "truthy")>> \o update_ivr_fields
      [] op = "update_ring_group"   -> update_ring_group_fields
      [] op = "update_call_hunting" -> update_call_hunting_fields
      [] op = "update_voicemail"    -> update_voicemail_fields

\* C6 as stated: what an update_* operation submits holds, for each optional
\* argument passed with a non-empty value, the caller's value under the vendor
\* key of the argument, and under every other key the value fetched.
C6_OverlayOnFetched ==
    Submitted =>
        LET fields == DocumentedFields(call.op)
            passed == {i \in DOMAIN fields : Truthy(call.args[fields[i].arg])}
            named  == {fields[i].key : i \in {j \in DOMAIN fields : call.args[fields[j].arg] # NoneV}}
        IN /\ \A i \in passed : /\ fields[i].key \in DOMAIN Sub
                                /\ Sub[fields[i].key] = call.args[fields[i].arg]
           /\ \A k \in DOMAIN Got \ named : k \in DOMAIN Sub /\ Sub[k] = Got[k]

\* A create_subaccount or update_subaccount call whose arguments fail one of
\* the method's checks.
ArgumentCheckFails ==
    \/ /\ call.op = "create_subaccount"
       /\ \/ IsStr(call.id) /\ Len(Chars(call.id)) > MaxUsernameLen
          \/ AuthChecksFail(call.args)
    \/ /\ call.op = "update_subaccount"
       /\ \/ IsStr(call.id) /\ ~StrContains(call.id, "_")
          \/ AuthChecksFail(call.args)

\* C7 as stated: a call that fails an argument check has sent no request.
C7_ChecksBeforeRequests == ArgumentCheckFails => sent = <<>>

\* C8: a facade constructed with exactly one of username and password fails
\* with ValueError before a transport is built or a request sent; constructed
\* with both, its transport holds that pair; constructed with neither, its
\* transport holds the values of the two environment variables.
C8_FacadeCredentials ==
    call.op \in FacadeClasses =>
        LET u == call.args["username"]
            p == call.args["password"]
        IN /\ Truthy(u) # Truthy(p) =>
                /\ outcome.exc = "ValueError"
                /\ ~client.built
                /\ ~facade.ready
                /\ sent = <<>>
           /\ Truthy(u) /\ Truthy(p) =>
                /\ client.built
                /\ client.username = u
                /\ client.password = p
           /\ ~Truthy(u) /\ ~Truthy(p) =>
                /\ client.built
                /\ client.username = EnvGet(environ, "VOIPMS_API_USER")
                /\ client.password = EnvGet(environ, "VOIPMS_API_PASSWORD")

\* A facade constructed with a password and no username, with both variables
\* set in the environment.
C8_Witness ==
    /\ call.op \in FacadeClasses
    /\ ~Truthy(call.args["username"])
    /\ call.args["password"] = "api-pass"
    /\ "VOIPMS_API_USER" \in DOMAIN environ
    /\ outcome.exc = "ValueError"
    /\ ~client.built

\* The credential a client holds for an argument and an environment variable.
Resolved(arg, name) ==
    IF arg \notin {NoneV, ""} THEN arg
    ELSE IF name \in DOMAIN environ THEN environ[name]
    ELSE NoneV

\* C9: the client holds, for username and for password, the constructor
\* argument when that is non-empty, else the value of the environment
\* variable; with neither it is constructed all the same, with no credential.
C9_CredentialResolution ==
    call.op = "VoipMsClient" =>
        /\ client.built
        /\ outcome.exc = ""
        /\ client.username = Resolved(call.args["username"], "VOIPMS_API_USER")
        /\ client.password = Resolved(call.args["password"], "VOIPMS_API_PASSWORD")

\* A client built with a username argument while the environment names another
\* user, and with its password from the environment.
C9_Witness ==
    /\ call.op = "VoipMsClient"
    /\ call.args["username"] = "me@example.com"
    /\ call.args["password"] = NoneV
    /\ "VOIPMS_API_USER" \in DOMAIN environ
    /\ "VOIPMS_API_PASSWORD" \in DOMAIN environ
    /\ client.username = "me@example.com"
    /\ client.password = "env-pass"

\* The deletes that fetch first: the kind, the key of the descriptive value in
\* the record and the key it is attached under.
PrefetchDeletes ==
    [delete_forwarding   |-> [kind |-> "forwardings",  desc |-> "phone_number", result |-> "phone_number"],
     delete_ivr          |-> [kind |-> "ivrs",         desc |-> "name",         result |-> "ivr"],
     delete_ring_group   |-> [kind |-> "ring_groups",  desc |-> "name",         result |-> "ring_group"],
     delete_call_hunting |-> [kind |-> "call_hunting", desc |-> "description",  result |-> "call_hunting"]]

\* The entities of a kind the platform held before the call under the
\* identifier the call names.
Before(kind) ==
    {i \in DOMAIN call.remote0[kind] :
        call.remote0[kind][i][IdKey(kind)] = QueryValue(call.id)}

\* C10: a successful pre-fetching delete has sent exactly two requests, the
\* get of the entity and then the delete, and the descriptive value in its
\* result is the one the get returned, which is the value the entity had
\* before it was deleted.
C10_FetchThenDelete ==
    (/\ call.op \in DOMAIN PrefetchDeletes
     /\ outcome.ret.t = "dict"
     /\ "status" \in DOMAIN outcome.ret.v
     /\ outcome.ret.v["status"] = "success") =>
        LET d    == PrefetchDeletes[call.op]
            read == JsonDecode(received[1].body)[d.kind][1]
        IN /\ MethodsSent = <<GetMethodOf(d.kind), DelMethodOf(d.kind)>>
           /\ sent[1].params[FilterKey(GetMethodOf(d.kind))] = call.id
           /\ sent[2].params[FilterKey(DelMethodOf(d.kind))] = call.id
           /\ outcome.ret.v[d.result] = read[d.desc]
           /\ Before(d.kind) # {}
           /\ \A i \in Before(d.kind) :
                 outcome.ret.v[d.result] = call.remote0[d.kind][i][d.desc]
           /\ \A i \in DOMAIN call.remote1[d.kind] :
                 call.remote1[d.kind][i][IdKey(d.kind)] # QueryValue(call.id)

\* The second of two ring groups was deleted and its name is in the result.
C10_Witness ==
    /\ call.op = "delete_ring_group"
    /\ call.id = "2"
    /\ outcome.ret.t = "dict"
    /\ outcome.ret.v["status"] = "success"
    /\ outcome.ret.v["ring_group"] = AccountName(2)
    /\ Len(call.remote0["ring_groups"]) = 2
    /\ Len(call.remote1["ring_groups"]) = 1

\* The delete_* and cancel_* operations and the key under which each reports
\* what it deleted.
DeleteResultKey ==
    [delete_subaccount   |-> "id",
     delete_voicemail    |-> "voicemail",
     cancel_did          |-> "did",
     delete_forwarding   |-> "phone_number",
     delete_ivr          |-> "ivr",
     delete_ring_group   |-> "ring_group",
     delete_call_hunting |-> "call_hunting"]

\* C11: a delete_* or cancel_* operation that returns a mapping returns one
\* that holds the deleted entity's name (the value fetched before the delete)
\* or its identifier (as the caller passed it), whatever the delete response
\* held.
C11_DeleteResultNamesEntity ==
    (call.op \in DOMAIN DeleteResultKey /\ outcome.ret.t = "dict") =>
        LET k == DeleteResultKey[call.op]
        IN /\ k \in DOMAIN outcome.ret.v
           /\ outcome.ret.v[k] =
                IF call.op \in DOMAIN PrefetchDeletes
                THEN JsonDecode(received[1].body)[PrefetchDeletes[call.op].kind][1]
                        [PrefetchDeletes[call.op].desc]
                ELSE call.id
           /\ \A x \in DOMAIN JsonDecode(received[Len(received)].body) \ {k} :
                 outcome.ret.v[x] = JsonDecode(received[Len(received)].body)[x]

\* A DID was cancelled; the response said nothing of the DID, the result does.
C11_Witness ==
    /\ call.op = "cancel_did"
    /\ outcome.ret.t = "dict"
    /\ "did" \notin DOMAIN JsonDecode(received[1].body)
    /\ outcome.ret.v["did"] = "5551234567"
    /\ outcome.ret.v["status"] = "success"

\* The optional identifier and filter arguments of the get_* call that has
\* ended, each with the request parameter that carries it.
GetFilters ==
    CASE call.op = "get_subaccounts"   -> {<<call.id, "account">>}
      [] call.op = "get_forwardings"   -> {<<call.id, "forwarding">>}
      [] call.op = "get_ivrs"          -> {<<call.id, "ivr">>}
      [] call.op = "get_ring_groups"   -> {<<call.id, "ring_group">>}
      [] call.op = "get_call_huntings" -> {<<call.id, "callhunting">>}
      [] call.op = "get_voicemails"    -> {<<call.id, "mailbox">>, <<call.args["client"], "client">>}
      [] call.op = "get_dids_info"     -> {<<call.id, "did">>, <<call.args["client"], "client">>}
      [] call.op = "get_conference"    -> {<<call.id, "conference">>}
      [] call.op = "get_sequences"     -> {<<call.id, "sequence">>, <<call.args["client"], "client">>}
      [] call.op = "get_conference_recordings" ->
            {<<call.args["date_from"], "date_from">>, <<call.args["date_to"], "date_to">>}
      [] call.op = "get_sms" ->
            {<<call.id, "sms">>, <<call.args["date_from"], "from">>, <<call.args["date_to"], "to">>,
             <<call.args["type"], "type">>, <<call.args["did"], "did">>,
             <<call.args["contact"], "contact">>, <<call.args["limit"], "limit">>,
             <<call.args["timezone"], "timezone">>}
      [] OTHER -> {}

\* What the transport gives for the last response received: the decoded body,
\* or nothing when it raised for the status.
TransportResult ==
    LET r == received[Len(received)]
    IN IF r.http \in 400..599 THEN PyNone ELSE PyDict(JsonDecode(r.body))

\* C12 as stated: a get_* operation called without an optional identifier or
\* filter argument hands the transport a mapping that has no key for that
\* argument, and returns the transport's result unmodified.
C12_AbsentFilterOmitted ==
    (GetFilters # {} /\ sent # <<>>) =>
        /\ \A f \in GetFilters : f[1] = NoneV => f[2] \notin DOMAIN sent[1].params
        /\ Len(sent) = 1
        /\ outcome.ret = TransportResult

\* The date bounds of the call that has ended.
DateFrom == call.args["date_from"]

DateTo == call.args["date_to"]

EndPrecedesStart ==
    /\ strptime(DateFrom).exc = ""
    /\ strptime(DateTo).exc = ""
    /\ strptime(DateTo).day < strptime(DateFrom).day

\* C13 as stated: get_conference_recordings and get_sms fail and send no
\* request when exactly one of date_from and date_to is supplied, whichever it
\* is, and when both are supplied and the end date precedes the start date.
C13_DateBoundsTogether ==
    (/\ call.op \in {"get_conference_recordings", "get_sms"}
     /\ \/ Truthy(DateFrom) # Truthy(DateTo)
        \/ Truthy(DateFrom) /\ Truthy(DateTo) /\ EndPrecedesStart) =>
        /\ sent = <<>>
        /\ outcome.ret = PyNone

\* Both bounds are calendar dates and the start is not after the end.
DatesInOrder ==
    /\ strptime(DateFrom).exc = ""
    /\ strptime(DateTo).exc = ""
    /\ strptime(DateFrom).day <= strptime(DateTo).day

\* C14: get_transactions sends a request exactly when both arguments parse as
\* dates and date_from is not after date_to (the same day is accepted); the
\* request then carries, besides the credentials and the method, exactly
\* date_from and date_to with the caller's strings; otherwise nothing is sent
\* and the call returns None.
C14_TransactionsDateRange ==
    call.op = "get_transactions" =>
        IF DatesInOrder
        THEN /\ Len(sent) = 1
             /\ sent[1].params["method"] = "getTransactionHistory"
             /\ DOMAIN sent[1].params \ CredentialKeys = {"date_from", "date_to"}
             /\ sent[1].params["date_from"] = DateFrom
             /\ sent[1].params["date_to"] = DateTo
        ELSE /\ sent = <<>>
             /\ outcome.ret = PyNone

\* A request for one day, the same day written in two ways.
C14_Witness ==
    /\ call.op = "get_transactions"
    /\ DateFrom = "2016-07-03"
    /\ DateTo = "2016-7-3"
    /\ Len(sent) = 1
    /\ sent[1].params["date_to"] = "2016-7-3"
    /\ outcome.ret.t = "dict"

\* The preconditions C15 names, on the arguments of the call that has ended.
UsernameTooLong == IsStr(call.id) /\ Len(Chars(call.id)) > 12

PasswordMissing == call.args["auth_type"] \in {"i:1", "1"} /\ ~Truthy(call.args["password"])

IpMissing == call.args["auth_type"] \in {"i:2", "2"} /\ ~Truthy(call.args["ip"])

\* C15: create_subaccount returns None and sends nothing when the username has
\* more than 12 characters, when auth_type is 1 or '1' and no password is
\* given, and when auth_type is 2 or '2' and no ip is given; a username of 12
\* characters whose other arguments pass the checks is sent, in one
\* createSubAccount request.
C15_CreateSubaccountPreconditions ==
    call.op = "create_subaccount" =>
        /\ (UsernameTooLong \/ PasswordMissing \/ IpMissing) =>
              (sent = <<>> /\ outcome.ret = PyNone)
        /\ (/\ IsStr(call.id)
            /\ Len(Chars(call.id)) <= 12
            /\ ~PasswordMissing
            /\ ~IpMissing
            /\ ~Truthy(call.args["internal_cnam"])) =>
              (Len(sent) = 1 /\ sent[1].params["method"] = "createSubAccount"
                             /\ sent[1].params["username"] = call.id)

\* A username of 13 characters, everything else in order: nothing was sent.
C15_Witness ==
    /\ call.op = "create_subaccount"
    /\ call.id = "thirteen_char"
    /\ call.args["password"] = "pw2"
    /\ ~PasswordMissing
    /\ ~IpMissing
    /\ sent = <<>>
    /\ outcome.ret = PyNone

\* C16 as stated: in create_subaccount and update_subaccount, a call that
\* passes internal_cnam while enable_internal_cnam is absent, 0 or '0' returns
\* None, and no createSubAccount or setSubAccount request carrying
\* internal_cnam is sent.
C16_CnamNeedsEnableFlag ==
    (/\ call.op \in {"create_subaccount", "update_subaccount"}
     /\ Truthy(call.args["internal_cnam"])
     /\ call.args["enable_internal_cnam"] \in {NoneV, "i:0", "0"}) =>
        /\ outcome.ret = PyNone
        /\ \A i \in DOMAIN sent :
              sent[i].params["method"] \in {"createSubAccount", "setSubAccount"} =>
                  "internal_cnam" \notin DOMAIN sent[i].params


-----------------------------------------------------------------------------
\* The creates that route to the main account when the caller names no
\* destination, each with the argument, the key and the prefix of its default.
MainAccountDefault ==
    [create_ring_group   |-> [arg |-> "members", key |-> "members", prefix |-> "account:"],
     create_call_hunting |-> [arg |-> "members", key |-> "members", prefix |-> "account:"],
     create_ivr          |-> [arg |-> "options", key |-> "choices", prefix |-> "1=account:"]]

\* The account list a construction received.
ListedAccounts == JsonDecode(received[1].body)["accounts"]

\* C17: constructing RingGroups, IVR or CallHunting with arguments that pass
\* the both-or-neither check sends exactly one getSubAccounts request without
\* an account filter, and a construction that succeeds has stored the first
\* six characters of the first listed account's name as N.  A later
\* create_ring_group or create_call_hunting without members submits
\* members = 'account:N', a create_ivr without options submits
\* choices = '1=account:N', and a value the caller supplies is submitted in
\* place of the default.
C17_MainAccountIsDefaultMember ==
    /\ (call.op \in EagerClasses /\ ~OnlyOneGiven(call.args["username"], call.args["password"])) =>
          /\ Len(sent) = 1
          /\ sent[1].params["method"] = "getSubAccounts"
          /\ "account" \notin DOMAIN sent[1].params
          /\ facade.ready =>
                facade.acc_number =
                    StrOf(SubSeq(Chars(ListedAccounts[1]["account"]), 1, AccountNumberLen))
    /\ call.op \in DOMAIN MainAccountDefault =>
          LET d == MainAccountDefault[call.op]
          IN /\ Len(sent) = 1
             /\ sent[1].params[d.key] =
                   IF Truthy(call.args[d.arg]) THEN call.args[d.arg]
                   ELSE StrConcat(d.prefix, facade.acc_number)

\* An IVR created without options went out with the main account on digit 1,
\* and the call returned the server's mapping.
C17_Witness ==
    /\ call.op = "create_ivr"
    /\ call.args["options"] = NoneV
    /\ facade.acc_number = "100000"
    /\ sent[1].params["choices"] = "1=account:100000"
    /\ outcome.ret.t = "dict"

-----------------------------------------------------------------------------
\* The create operations, each with its optional-argument lines and the
\* defaults its request starts from.
CreateOps ==
    [create_subaccount |->
        [fields |-> create_subaccount_fields,
         defaults |-> [international_route |-> "i:1", music_on_hold |-> "default",
                       dtmf_mode |-> "auto", nat |-> "yes"]],
     create_ring_group |->
        [fields |-> create_ring_group_fields,
         defaults |-> [members |-> StrConcat("account:", facade.acc_number)]],
     create_ivr |->
        [fields |-> SubSeq(create_ivr_fields, 2, 5),
         defaults |-> [timeout |-> "i:5", language |-> "en", voicemailsetup |-> "i:1",
                       choices |-> StrConcat("1=account:", facade.acc_number)]],
     create_call_hunting |->
        [fields |-> create_call_hunting_fields,
         defaults |-> [music |-> "default", recording |-> "none:", language |-> "en",
                       order |-> "follow", ring_time |-> "i:25", press |-> "i:0",
                       members |-> StrConcat("account:", facade.acc_number)]],
     create_forwarding |->
        [fields |-> create_forwarding_fields, defaults |-> EmptyDict],
     create_voicemail |->
        [fields |-> create_voicemail_fields,
         defaults |-> [say_time |-> "yes", say_callerid |-> "yes",
                       play_instructions |-> "u"]]]

\* The optional arguments a create tests with `is not None`.
NotNoneChecked == {"device_type", "lock_international", "ring_time", "press_one"}

\* The create has sent its one request.
CreateSent == call.op \in DOMAIN CreateOps /\ Len(sent) = 1

\* The request submits the caller's value for the optional line f.
Overrides(f) == f.key \in DOMAIN sent[1].params /\ sent[1].params[f.key] = call.args[f.arg]

\* The request carries the package default for the line's key, or no such
\* key where the package has no default for it.
DefaultKept(f) ==
    LET d == CreateOps[call.op].defaults
    IN IF f.key \in DOMAIN d THEN /\ f.key \in DOMAIN sent[1].params
                                  /\ sent[1].params[f.key] = d[f.key]
       ELSE f.key \notin DOMAIN sent[1].params

\* The arguments of a create_subaccount call that passes username and
\* password only.
OnlyUsernameAndPassword ==
    /\ call.op = "create_subaccount"
    /\ call.args = [create_subaccount_defaults EXCEPT !["password"] = "pw2"]

\* What that call submits, by the claim.
MinimalSubaccount ==
    [username |-> call.id, password |-> "pw2", international_route |-> "i:1",
     music_on_hold |-> "default", dtmf_mode |-> "auto", nat |-> "yes",
     auth_type |-> "i:1", protocol |-> "i:1", device_type |-> "i:2",
     lock_international |-> "i:1", allowed_codecs |-> "g722"]

\* C18 as stated: a create submits a caller's optional argument only when it
\* is present and non-empty.
C18_AsStated ==
    CreateSent =>
        \A i \in DOMAIN CreateOps[call.op].fields :
            LET f == CreateOps[call.op].fields[i]
            IN (Overrides(f) /\ ~DefaultKept(f)) => call.args[f.arg] \notin {NoneV, ""}

\* C18: the request of a create carries every package default of the
\* operation; an optional argument replaces the default, or adds its key,
\* exactly when it is not None and either non-empty and non-zero or one of the
\* arguments tested with `is not None` (device_type, lock_international,
\* ring_time, press_one), for which an empty str is submitted too; otherwise
\* the default stays, and a key without default is left out.  A
\* create_subaccount that passes only username and password submits exactly
\* the listed defaults beside them.
C18_DefaultsAndOverrides ==
    /\ CreateSent =>
          /\ \A k \in DOMAIN CreateOps[call.op].defaults : k \in DOMAIN sent[1].params
          /\ \A i \in DOMAIN CreateOps[call.op].fields :
                LET f == CreateOps[call.op].fields[i]
                    v == call.args[f.arg]
                IN IF v # NoneV /\ (Truthy(v) \/ f.arg \in NotNoneChecked)
                   THEN Overrides(f)
                   ELSE DefaultKept(f)
    /\ (OnlyUsernameAndPassword /\ outcome.ret.t = "dict") =>
          /\ Len(sent) = 1
          /\ [k \in DOMAIN sent[1].params \ CredentialKeys |-> sent[1].params[k]]
                = MinimalSubaccount

\* A sub-account created from a username and a password alone went out with
\* the package defaults.
C18_Witness ==
    /\ OnlyUsernameAndPassword
    /\ call.id = "VoIP"
    /\ Len(sent) = 1
    /\ sent[1].params["allowed_codecs"] = "g722"
    /\ "description" \notin DOMAIN sent[1].params
    /\ outcome.ret.t = "dict"

-----------------------------------------------------------------------------
\* The operations that create or order an entity.
CreateOrOrderOps ==
    {"create_subaccount", "create_forwarding", "create_ivr", "create_ring_group",
     "create_call_hunting", "create_voicemail", "order_did", "order_toll_free"}

\* The returned mapping has a field holding the identifier or name the
\* operation was called with.
NamesCreatedEntity == \E k \in DOMAIN outcome.ret.v : outcome.ret.v[k] = call.id

\* C19: the mapping a create_* or order_* operation returns has a field that
\* holds the created entity's identifier or name as the caller passed it.
C19_CreateResultNamesEntity ==
    (call.op \in CreateOrOrderOps /\ outcome.ret.t = "dict") => NamesCreatedEntity

-----------------------------------------------------------------------------
\* What make_request('getIP') with no params does in the state the call
\* found, when the server reacts with rx.
SameViaMakeRequest(rx) == make_request(client, "getIP", PyNone, rx, call.remote0).run

\* C20: test_connection() sends exactly one request, to the client's endpoint
\* with method getIP and the client's credentials and nothing else, and
\* returns the decoded body of the response, with status 'success' when the
\* server accepts the call; whatever the client and the server's reaction,
\* the request, the exception raised or value returned and the state the
\* platform is left in are those of make_request('getIP') without params.
C20_TestConnectionIsGetIP ==
    call.op = "test_connection" =>
        /\ Len(sent) = 1
        /\ sent[1] = [url |-> client.voipms_url,
                      params |-> [api_username |-> client.username,
                                  api_password |-> client.password,
                                  method |-> "getIP"]]
        /\ outcome.exc = "" => outcome.ret = PyDict(JsonDecode(received[1].body))
        /\ (outcome.exc = "" /\ Member("status", "success") \in MembersOf(received[1].body))
              => outcome.ret.v["status"] = "success"
        /\ \E rx \in TransportReactions : SameViaMakeRequest(rx).recv = received
        /\ \A rx \in TransportReactions :
              SameViaMakeRequest(rx).recv = received =>
                  /\ SameViaMakeRequest(rx).sent = sent
                  /\ SameViaMakeRequest(rx).exc = outcome.exc
                  /\ SameViaMakeRequest(rx).ret = outcome.ret
                  /\ SameViaMakeRequest(rx).remote = call.remote1

\* A connection test with explicit credentials was answered with the caller's
\* address.
C20_Witness ==
    /\ call.op = "test_connection"
    /\ client.username = "me@example.com"
    /\ Len(sent) = 1
    /\ outcome.ret.t = "dict"
    /\ "ip" \in DOMAIN outcome.ret.v
    /\ outcome.ret.v["status"] = "success"

-----------------------------------------------------------------------------
\* update_subaccount submitted a record whose authentication type the call
\* changed from `old` (as fetched) to one of `new` (as passed).
TypeChanged(old, new) ==
    /\ Submitted
    /\ call.op = "update_subaccount"
    /\ "auth_type" \in DOMAIN Got
    /\ Got["auth_type"] = old
    /\ call.args["auth_type"] \in new

\* C21: when update_subaccount changes the authentication type, what it
\* submits holds the credential of the new type and not that of the old one:
\* ip and no password after a change to IP authentication, password and no ip
\* after a change to password authentication.
C21_OldCredentialLeftOut ==
    /\ TypeChanged("1", {"i:2", "2"}) =>
          ("ip" \in DOMAIN Sub /\ "password" \notin DOMAIN Sub)
    /\ TypeChanged("2", {"i:1", "1"}) =>
          ("password" \in DOMAIN Sub /\ "ip" \notin DOMAIN Sub)

-----------------------------------------------------------------------------
\* The pre-fetch of the call was answered with the given status.
PrefetchStatus(status) ==
    /\ Len(received) >= 1
    /\ ~RaisesForStatus(received[1].http)
    /\ Member("status", status) \in MembersOf(received[1].body)

\* The call ended with the sentinel and left the platform as it found it.
SentinelAndUntouched == outcome.exc = "" /\ outcome.ret = PyNone /\ call.remote1 = call.remote0

\* C22: update_subaccount called with a name without '_' sends no request and
\* returns None; when its get request is answered with status 'no_subaccount'
\* it sends nothing after that get and returns None; and whenever it does send
\* setSubAccount, the get before it returned the record of the sub-account
\* named in the call.
C22_NoSetForUnknownSubaccount ==
    call.op = "update_subaccount" =>
        /\ (IsStr(call.id) /\ "_" \notin {Chars(call.id)[i] : i \in DOMAIN Chars(call.id)}) =>
              (sent = <<>> /\ SentinelAndUntouched)
        /\ PrefetchStatus("no_subaccount") =>
              (MethodsSent = <<"getSubAccounts">> /\ SentinelAndUntouched)
        /\ Submitted =>
              /\ MethodsSent = <<"getSubAccounts", "setSubAccount">>
              /\ ~PrefetchStatus("no_subaccount")
              /\ Got["account"] = call.id

\* A full sub-account name that the platform does not know: one get, answered
\* 'no_subaccount', and None returned.
C22_Witness ==
    /\ call.op = "update_subaccount"
    /\ call.id = "100000_Desk"
    /\ PrefetchStatus("no_subaccount")
    /\ MethodsSent = <<"getSubAccounts">>
    /\ outcome.ret = PyNone

-----------------------------------------------------------------------------
\* The first record of the list the pre-fetch of an update returned, where
\* there is one.
PrefetchHasRecord ==
    /\ Len(received) >= 1
    /\ ~RaisesForStatus(received[1].http)
    /\ UpdateKind(call.op) \in DOMAIN JsonDecode(received[1].body)
    /\ JsonDecode(received[1].body)[UpdateKind(call.op)] # <<>>

\* C23: what update_voicemail submits never has transcription 'Y' or 'N': a
\* fetched 'N' goes out as '', a fetched 'Y' as 'yes', any other value as
\* fetched; and when the fetched record has no transcription key the call
\* sends nothing after its get and returns None.
C23_TranscriptionCoerced ==
    call.op = "update_voicemail" =>
        /\ Submitted =>
              /\ "transcription" \in DOMAIN Got
              /\ "transcription" \in DOMAIN Sub
              /\ Sub["transcription"] \notin {"Y", "N"}
              /\ Sub["transcription"] =
                    CASE Got["transcription"] = "N" -> ""
                      [] Got["transcription"] = "Y" -> "yes"
                      [] OTHER -> Got["transcription"]
        /\ (PrefetchHasRecord /\ "transcription" \notin DOMAIN Got) =>
              (MethodsSent = <<"getVoicemails">> /\ SentinelAndUntouched)

\* A mailbox fetched with transcription 'Y' was resubmitted with 'yes'.
C23_Witness ==
    /\ call.op = "update_voicemail"
    /\ Submitted
    /\ Got["transcription"] = "Y"
    /\ Sub["transcription"] = "yes"
    /\ outcome.ret.t = "dict"

-----------------------------------------------------------------------------
\* The updates that return a 'name' field, each with the key under which the
\* platform keeps the entity's name.
NameKeyOf ==
    [update_ring_group |-> "name", update_ivr |-> "name",
     update_call_hunting |-> "description", update_voicemail |-> "name"]

\* The entity the update addressed, as the platform holds it after the call.
UpdatedEntity ==
    LET kind == UpdateKind(call.op)
        idk  == IdKey(kind)
    IN CHOOSE r \in {call.remote1[kind][i] : i \in DOMAIN call.remote1[kind]} :
           r[idk] = Got[idk]

\* C24: the mapping that update_ring_group, update_ivr, update_call_hunting
\* and update_voicemail return after a set request the platform accepted has a
\* 'name' field equal to the name of the entity that was updated, whether or
\* not the call passed a new name.
C24_UpdateResultNamesEntity ==
    (/\ call.op \in DOMAIN NameKeyOf
     /\ Submitted
     /\ outcome.ret.t = "dict"
     /\ "status" \in DOMAIN outcome.ret.v
     /\ outcome.ret.v["status"] = "success") =>
        /\ "name" \in DOMAIN outcome.ret.v
        /\ outcome.ret.v["name"] = UpdatedEntity[NameKeyOf[call.op]]

-----------------------------------------------------------------------------
\* C25: constructing RingGroups, IVR or CallHunting with neither or both
\* credentials raises nothing, whatever the platform answers to the listing of
\* sub-accounts made during construction.
C25_EagerConstructionNeverRaises ==
    (/\ call.op \in EagerClasses
     /\ ~OnlyOneGiven(call.args["username"], call.args["password"])) =>
        outcome.exc = ""

\* C26: a RingGroups, IVR or CallHunting facade built from an explicit
\* username and password lists the sub-accounts during construction under
\* that same pair, the pair its later requests carry.
C26_ConstructionUsesFacadeCredentials ==
    (/\ call.op \in EagerClasses
     /\ Truthy(call.args["username"])
     /\ Truthy(call.args["password"])) =>
        \A i \in DOMAIN sent :
            /\ sent[i].params["api_username"] = client.username
            /\ sent[i].params["api_password"] = client.password

-----------------------------------------------------------------------------
\* The operations that fetch the entity before they change or delete it, and
\* the kind of entity each fetches.
PrefetchOps == UpdateOps \cup DOMAIN PrefetchDeletes

PrefetchKind(op) == IF op \in UpdateOps THEN UpdateKind(op) ELSE PrefetchDeletes[op].kind

\* The get request of the call was sent and failed: an HTTP error status, or
\* a body without the list of the kind, or with an empty list.
PrefetchFailed ==
    LET kind == PrefetchKind(call.op)
    IN /\ Len(received) >= 1
       /\ MethodsSent[1] = GetMethodOf(kind)
       /\ \/ RaisesForStatus(received[1].http)
          \/ kind \notin DOMAIN JsonDecode(received[1].body)
          \/ JsonDecode(received[1].body)[kind] = <<>>

\* C27: when the get request of an update_* or of a pre-fetching delete_*
\* fails with an HTTP error, or its answer holds no record, the operation
\* sends nothing after it, leaves the platform unchanged and returns None.
C27_NoMutationAfterFailedPrefetch ==
    (call.op \in PrefetchOps /\ PrefetchFailed) =>
        /\ MethodsSent = <<GetMethodOf(PrefetchKind(call.op))>>
        /\ SentinelAndUntouched

\* update_forwarding whose get was answered with an empty list, although the
\* platform holds a forwarding: nothing but the get was sent.
C27_Witness ==
    /\ call.op = "update_forwarding"
    /\ call.remote0["forwardings"] # <<>>
    /\ ~RaisesForStatus(received[1].http)
    /\ "forwardings" \in DOMAIN JsonDecode(received[1].body)
    /\ JsonDecode(received[1].body)["forwardings"] = <<>>
    /\ MethodsSent = <<"getForwardings">>
    /\ outcome.ret = PyNone

-----------------------------------------------------------------------------
\* C29: the get request that an update_* or a pre-fetching delete_* sends
\* first carries the identifier the operation was called with as its filter,
\* whatever that identifier is, so that the record the operation works from
\* is the one of the entity named and not the head of a full listing.
C29_PrefetchFiltersById ==
    (/\ call.op \in PrefetchOps
     /\ Len(sent) >= 1
     /\ MethodsSent[1] = GetMethodOf(PrefetchKind(call.op))) =>
        LET fk == FilterKey(GetMethodOf(PrefetchKind(call.op)))
        IN /\ fk \in DOMAIN sent[1].params
           /\ sent[1].params[fk] = call.id

-----------------------------------------------------------------------------
\* The operations that attach a fixed 'result' text to what they return.
ResultTextOps ==
    {"cancel_did", "order_did", "order_toll_free", "delete_subaccount", "delete_voicemail"}

\* C30: a mapping returned by cancel_did, order_did, order_toll_free,
\* delete_subaccount or delete_voicemail carries a 'result' text only when
\* its status is 'success'.
C30_ResultTextOnlyOnSuccess ==
    (/\ call.op \in ResultTextOps
     /\ outcome.ret.t = "dict"
     /\ "result" \in DOMAIN outcome.ret.v) =>
        /\ "status" \in DOMAIN outcome.ret.v
        /\ outcome.ret.v["status"] = "success"

-----------------------------------------------------------------------------
\* The optional-parameter lines of the update the workers run, and for worker
\* w the line its one argument goes through.
RaceFields ==
    IF cls = "Forwarding" THEN update_forwarding_fields ELSE update_call_hunting_fields

ChangedBy(w) ==
    CHOOSE i \in DOMAIN RaceFields : workers[w].args[RaceFields[i].arg] # NoneV

\* Worker w passed an argument that its update applies, and the update
\* returned the platform's 'success'.
ReturnedSuccessfully(w) ==
    /\ workers[w].pc = "returned"
    /\ \E i \in DOMAIN RaceFields : workers[w].args[RaceFields[i].arg] # NoneV
    /\ Applies(RaceFields[ChangedBy(w)], workers[w].args)
    /\ workers[w].run.ret.t = "dict"
    /\ "status" \in DOMAIN workers[w].run.ret.v
    /\ workers[w].run.ret.v["status"] = "success"

\* C28: when both workers have updated the same entity, each passing one
\* argument for a field the other did not pass, and both updates have returned
\* successfully, the entity on the platform holds both new values, in whatever
\* order the four requests were answered.
C28_NoLostUpdate ==
    (/\ cls \in RaceClasses
     /\ \A w \in Workers : ReturnedSuccessfully(w)
     /\ workers[1].id = workers[2].id
     /\ RaceFields[ChangedBy(1)].key # RaceFields[ChangedBy(2)].key) =>
        LET kind == KindOfClass(cls)
        IN \E i \in DOMAIN remote[kind] :
              /\ remote[kind][i][IdKey(kind)] = QueryValue(workers[1].id)
              /\ \A w \in Workers :
                    remote[kind][i][RaceFields[ChangedBy(w)].key] =
                        QueryValue(workers[w].args[RaceFields[ChangedBy(w)].arg])
====
